---------------------------- MODULE Spec2Model ----------------------------
(***************************************************************************)
(* Model of the filter-inference-and-matching pipeline of the course       *)
(* search server:                                                          *)
(*   MemStorage.searchCourses               (server/storage.ts)            *)
(*   CourseService.searchCourses / deduplicateCourses                      *)
(*                                          (server/services/courseService.ts) *)
(*   ChatService.processMessage / extractFiltersFromMessage /              *)
(*   generateResponse                       (server/services/chatService.ts)   *)
(*                                                                         *)
(* JavaScript strings are TLA+ strings; the string methods the code calls  *)
(* (includes, toLowerCase, match, parseInt, parseFloat, join) are          *)
(* operators that compute character by character.  A JavaScript value of   *)
(* dynamic type (a filter value, a nullable field) is a one-field record   *)
(* whose field name is its type tag.  A JavaScript number is kept in       *)
(* tenths (4.5 is Num(45), 25 is Num(250)), which is exact for every       *)
(* number the model draws; the hours parsed from a workload text are kept  *)
(* as an exact fraction.                                                   *)
(***************************************************************************)
EXTENDS Integers, Sequences, FiniteSets, TLC

(***************************************************************************)
(* Bounds of the model.                                                    *)
(***************************************************************************)
\* longest catalog the storage specification loads
MaxCourses == 2
\* longest list handed to the Deduplicator
MaxDedupLen == 3

(***************************************************************************)
(* JavaScript values.                                                      *)
(***************************************************************************)
Str(s) == [str |-> s]
Num(n) == [num |-> n]
Bool(b) == [bool |-> b]
Null == [null |-> TRUE]
Undefined == [undef |-> TRUE]

IsStr(v) == DOMAIN v = {"str"}
IsNum(v) == DOMAIN v = {"num"}
IsBool(v) == DOMAIN v = {"bool"}

\* ToBoolean: undefined, null, false, 0 and "" are falsy
Truthy(v) ==
    CASE IsStr(v) -> v.str # ""
      [] IsNum(v) -> v.num # 0
      [] IsBool(v) -> v.bool
      [] OTHER -> FALSE

\* A JavaScript object is the list of its own properties in property order,
\* each a record [k |-> name, v |-> value], no name twice.
EmptyObject == <<>>
Keys(o) == {o[i].k : i \in DOMAIN o}
KeyIndex(o, k) == CHOOSE i \in DOMAIN o : o[i].k = k

\* o.key: undefined when the key is absent
Get(o, k) == IF k \in Keys(o) THEN o[KeyIndex(o, k)].v ELSE Undefined

\* v === true
IsTrue(v) == IsBool(v) /\ v.bool

(***************************************************************************)
(* Strings.                                                                *)
(***************************************************************************)
UpperLetters == "ABCDEFGHIJKLMNOPQRSTUVWXYZ"
LowerLetters == "abcdefghijklmnopqrstuvwxyz"
Digits == "0123456789"

CharAt(s, i) == SubSeq(s, i, i)

\* String.prototype.includes
Includes(s, sub) ==
    \E i \in 1..(Len(s) - Len(sub) + 1) : SubSeq(s, i, i + Len(sub) - 1) = sub

IndexIn(alphabet, c) == CHOOSE i \in 1..Len(alphabet) : CharAt(alphabet, i) = c

\* the characters of a string, as a set
Chars(alphabet) == {CharAt(alphabet, i) : i \in 1..Len(alphabet)}

UpperSet == Chars(UpperLetters)
LowerSet == Chars(LowerLetters)
DigitSet == Chars(Digits)

LowerOf == [c \in UpperSet |-> CharAt(LowerLetters, IndexIn(UpperLetters, c))]
UpperOf == [c \in LowerSet |-> CharAt(UpperLetters, IndexIn(LowerLetters, c))]
DigitOf == [c \in DigitSet |-> IndexIn(Digits, c) - 1]

LowerChar(c) == IF c \in UpperSet THEN LowerOf[c] ELSE c
UpperChar(c) == IF c \in LowerSet THEN UpperOf[c] ELSE c

RECURSIVE LowerFrom(_, _)
LowerFrom(s, i) ==
    IF i > Len(s) THEN "" ELSE LowerChar(CharAt(s, i)) \o LowerFrom(s, i + 1)

\* String.prototype.toLowerCase
ToLowerCase(s) == LowerFrom(s, 1)

RECURSIVE UpperFrom(_, _)
UpperFrom(s, i) ==
    IF i > Len(s) THEN "" ELSE UpperChar(CharAt(s, i)) \o UpperFrom(s, i + 1)

\* String.prototype.toUpperCase
ToUpperCase(s) == UpperFrom(s, 1)

IsDigit(c) == c \in DigitSet
DigitVal(c) == DigitOf[c]

\* \w of a regular expression
IsWordChar(c) == c \in DigitSet \/ c \in LowerSet \/ c \in UpperSet \/ c = "_"

\* \s: the white space the model's strings use
IsSpace(c) == c = " "

RECURSIVE DigitsValue(_)
\* the value of a string of decimal digits
DigitsValue(ds) ==
    IF ds = "" THEN 0
    ELSE 10 * DigitsValue(SubSeq(ds, 1, Len(ds) - 1)) + DigitVal(CharAt(ds, Len(ds)))

RECURSIVE Pow10(_)
Pow10(n) == IF n = 0 THEN 1 ELSE 10 * Pow10(n - 1)

\* the last index of the maximal run of digits of s that starts at i
\* (i - 1 when s has no digit at i)
DigitRunEnd(s, i) ==
    IF i > Len(s) \/ ~IsDigit(CharAt(s, i)) THEN i - 1
    ELSE CHOOSE j \in i..Len(s) :
            /\ \A k \in i..j : IsDigit(CharAt(s, k))
            /\ (j = Len(s) \/ ~IsDigit(CharAt(s, j + 1)))

HasDigit(s) == \E i \in 1..Len(s) : IsDigit(CharAt(s, i))

FirstDigitIndex(s) ==
    CHOOSE i \in 1..Len(s) :
        IsDigit(CharAt(s, i)) /\ \A k \in 1..(i - 1) : ~IsDigit(CharAt(s, k))

\* s.match(/(\d+)/): group 1 of the leftmost match, "" when there is no match
MatchInteger(s) ==
    IF ~HasDigit(s) THEN ""
    ELSE LET i == FirstDigitIndex(s) IN SubSeq(s, i, DigitRunEnd(s, i))

\* s.match(/(\d+(\.\d+)?)/): group 1 of the leftmost match, "" when no match
MatchDecimal(s) ==
    IF ~HasDigit(s) THEN ""
    ELSE LET i == FirstDigitIndex(s)
             j == DigitRunEnd(s, i)
             k == DigitRunEnd(s, j + 2)
         IN IF j + 2 <= Len(s) /\ CharAt(s, j + 1) = "." /\ k >= j + 2
            THEN SubSeq(s, i, k)
            ELSE SubSeq(s, i, j)

\* parseFloat of a string digits[.digits], as the fraction num / den
ParseFloat(m) ==
    LET j == DigitRunEnd(m, 1)
    IN IF j = Len(m) THEN [num |-> DigitsValue(m), den |-> 1]
       ELSE [num |-> DigitsValue(SubSeq(m, 1, j)) * Pow10(Len(m) - j - 1)
                      + DigitsValue(SubSeq(m, j + 2, Len(m))),
             den |-> Pow10(Len(m) - j - 1)]

NaN == [nan |-> TRUE, val |-> 0]
Int10(n) == [nan |-> FALSE, val |-> n]

RECURSIVE SkipSpaces(_)
SkipSpaces(s) ==
    IF s # "" /\ IsSpace(CharAt(s, 1)) THEN SkipSpaces(SubSeq(s, 2, Len(s))) ELSE s

\* parseInt(s, 10): leading white space, an optional sign, then digits
ParseInt(s) ==
    LET t == SkipSpaces(s)
        neg == t # "" /\ CharAt(t, 1) = "-"
        u == IF t # "" /\ CharAt(t, 1) \in {"-", "+"} THEN SubSeq(t, 2, Len(t)) ELSE t
        j == DigitRunEnd(u, 1)
    IN IF j = 0 THEN NaN
       ELSE Int10((IF neg THEN -1 ELSE 1) * DigitsValue(SubSeq(u, 1, j)))

RECURSIVE NatToString(_)
NatToString(n) ==
    IF n < 10 THEN CharAt(Digits, n + 1)
    ELSE NatToString(n \div 10) \o CharAt(Digits, (n % 10) + 1)

\* Number.prototype.toString of a number kept in tenths
NumToString(n) ==
    LET a == IF n < 0 THEN -n ELSE n
        whole == NatToString(a \div 10)
        frac == IF a % 10 = 0 THEN "" ELSE "." \o NatToString(a % 10)
    IN (IF n < 0 THEN "-" ELSE "") \o whole \o frac

\* value.toString()
ValueToString(v) ==
    CASE IsStr(v) -> v.str
      [] IsNum(v) -> NumToString(v.num)
      [] IsBool(v) -> IF v.bool THEN "true" ELSE "false"

\* s.match(/\b(t1|t2|...)\b/) for tokens made of word characters
MatchesWord(s, tokens) ==
    \E t \in tokens : \E i \in 1..(Len(s) - Len(t) + 1) :
        /\ SubSeq(s, i, i + Len(t) - 1) = t
        /\ (i = 1 \/ ~IsWordChar(CharAt(s, i - 1)))
        /\ (i + Len(t) - 1 = Len(s) \/ ~IsWordChar(CharAt(s, i + Len(t))))

\* the integer n as a JavaScript number
Whole(n) == Num(n * 10)

\* (v || d) for a numeric field v: the number in tenths
OrNum(v, d) == IF Truthy(v) THEN v.num ELSE d

\* (v || "") and v?.toLowerCase() guards: the string of a nullable string field
OrEmpty(v) == IF IsStr(v) THEN v.str ELSE ""

(***************************************************************************)
(* MemStorage.searchCourses: successive narrowing passes over the catalog. *)
(* all is Array.from(this.courses.values()), cs the working list, F the    *)
(* filter object.                                                          *)
(***************************************************************************)
\* filters.semester
SemesterPass(cs, F) ==
    LET v == Get(F, "semester") IN
    IF ~Truthy(v) THEN cs
    ELSE IF v = Str("fall")
         THEN SelectSeq(cs, LAMBDA c :
                Truthy(c.term) /\ Includes(ToLowerCase(c.term.str), "fall"))
    ELSE IF v = Str("spring")
         THEN SelectSeq(cs, LAMBDA c :
                Truthy(c.term) /\ Includes(ToLowerCase(c.term.str), "spring"))
    ELSE cs

\* filters.query
QueryPass(cs, F) ==
    LET v == Get(F, "query") IN
    IF ~Truthy(v) THEN cs
    ELSE LET query == ToLowerCase(v.str) IN
         SelectSeq(cs, LAMBDA c :
            \/ Includes(ToLowerCase(c.title), query)
            \/ Includes(ToLowerCase(OrEmpty(c.course_description)), query)
            \/ Includes(ToLowerCase(c.professor), query)
            \/ Includes(ToLowerCase(c.course_id), query)
            \/ \E i \in 1..Len(c.qguide_reviews) :
                  Includes(ToLowerCase(c.qguide_reviews[i]), query))

\* filters.concentration, with the anthro alias and its retry on the whole catalog
ConcentrationPass(all, cs, F) ==
    LET v == Get(F, "concentration") IN
    IF ~Truthy(v) THEN cs
    ELSE LET lowered == ToLowerCase(v.str)
             normalizedConcentration ==
                 IF lowered = "anthro" THEN "anthropology" ELSE lowered
             matched == SelectSeq(cs, LAMBDA c :
                 /\ Truthy(c.concentration)
                 /\ LET courseConcentration == ToLowerCase(c.concentration.str)
                    IN \/ Includes(courseConcentration, normalizedConcentration)
                       \/ Includes(normalizedConcentration, courseConcentration))
         IN IF Len(matched) = 0 /\ normalizedConcentration = "anthropology"
            THEN SelectSeq(all, LAMBDA c :
                    c.course_id # "" /\ Includes(c.course_id, "ANTHRO"))
            ELSE matched

\* the GenEd pass without the test of the course code
GenedPassByLabel(cs, F) ==
    LET v == Get(F, "genedCategory") IN
    IF ~Truthy(v) THEN cs
    ELSE SelectSeq(cs, LAMBDA c :
            \/ IsTrue(v)
            \/ v = Str("true")
            \/ ToUpperCase(ValueToString(v)) = "GENED"
            \/ LET categoryLowerCase == ToLowerCase(ValueToString(v))
               IN \E i \in 1..Len(c.gen_eds) :
                     /\ c.gen_eds[i] # ""
                     /\ Includes(ToLowerCase(c.gen_eds[i]), categoryLowerCase))

\* filters.genedCategory
GenedPass(cs, F) ==
    LET v == Get(F, "genedCategory") IN
    IF ~Truthy(v) THEN cs
    ELSE SelectSeq(cs, LAMBDA c :
            /\ Includes(c.course_id, "GENED")
            /\ \/ IsTrue(v)
               \/ v = Str("true")
               \/ ToUpperCase(ValueToString(v)) = "GENED"
               \/ LET categoryLowerCase == ToLowerCase(ValueToString(v))
                  IN \E i \in 1..Len(c.gen_eds) :
                        /\ c.gen_eds[i] # ""
                        /\ Includes(ToLowerCase(c.gen_eds[i]), categoryLowerCase))

\* filters.qRating
QRatingPass(cs, F) ==
    LET v == Get(F, "qRating") IN
    IF ~Truthy(v) THEN cs
    ELSE SelectSeq(cs, LAMBDA c : OrNum(c.qrating, 0) >= v.num)

\* parseInt(filters.workloadHours.toString(), 10)
MaxHours(v) == ParseInt(ValueToString(v))

\* the guard with the bound of 25 included
WorkloadAppliesInclusive(v) ==
    Truthy(v) /\ ~MaxHours(v).nan /\ MaxHours(v).val <= 25

\* the guard of the workload pass: the value is set and parses below 25
WorkloadApplies(v) ==
    Truthy(v) /\ ~MaxHours(v).nan /\ MaxHours(v).val < 25

\* the callback dropping a course whose workload text has no number
WorkloadPassesNumbered(c, maxHours) ==
    LET workloadStr == OrEmpty(c.average_workload)
        workloadMatch == MatchDecimal(workloadStr)
    IN IF workloadMatch = "" THEN FALSE
       ELSE LET workloadHours == ParseFloat(workloadMatch)
            IN workloadHours.num < maxHours * workloadHours.den

\* the callback of the workload pass for one course
WorkloadPasses(c, maxHours) ==
    LET workloadStr == OrEmpty(c.average_workload)
        workloadMatch == MatchDecimal(workloadStr)
    IN IF workloadMatch = "" THEN TRUE
       ELSE LET workloadHours == ParseFloat(workloadMatch)
            IN workloadHours.num < maxHours * workloadHours.den

\* filters.workloadHours
WorkloadPass(cs, F) ==
    LET v == Get(F, "workloadHours") IN
    IF ~WorkloadApplies(v) THEN cs
    ELSE SelectSeq(cs, LAMBDA c : WorkloadPasses(c, MaxHours(v).val))

\* parseInt of group 1 of average_workload?.match(/(\d+)/), 0 without a match
IntegerHours(c) ==
    LET workloadMatch == MatchInteger(OrEmpty(c.average_workload))
    IN IF workloadMatch = "" THEN 0 ELSE DigitsValue(workloadMatch)

\* workloadMap of the legacy workload rating, -1 for undefined
WorkloadMap(rating) ==
    CASE rating = 10 -> 0
      [] rating = 20 -> 2
      [] rating = 30 -> 5
      [] rating = 40 -> 10
      [] rating = 50 -> 15
      [] OTHER -> -1

\* filters.workloadRating (numbers only)
WorkloadRatingPass(cs, F) ==
    LET v == Get(F, "workloadRating") IN
    IF ~Truthy(v) THEN cs
    ELSE LET rating == v.num
             defined == ~(rating >= 10 /\ rating <= 50) \/ WorkloadMap(rating) # -1
             minHours == IF rating >= 10 /\ rating <= 50 THEN WorkloadMap(rating) ELSE 0
         IN SelectSeq(cs, LAMBDA c : defined /\ IntegerHours(c) >= minHours)

\* the difficulty without the cap at 5 and the floor at 1
DifficultyScoreUnclamped(c) ==
    LET workloadHours == IntegerHours(c)
        qRating == OrNum(c.qrating, 30)
        band == IF workloadHours >= 20 THEN 5
                ELSE IF workloadHours >= 15 THEN 4
                ELSE IF workloadHours >= 10 THEN 3
                ELSE IF workloadHours >= 5 THEN 2
                ELSE 1
    IN IF qRating < 30 THEN band + 1
       ELSE IF qRating > 45 THEN band - 1
       ELSE band

\* the difficulty derived from workload hours and rating
DifficultyScore(c) ==
    LET workloadHours == IntegerHours(c)
        qRating == OrNum(c.qrating, 30)
        band == IF workloadHours >= 20 THEN 5
                ELSE IF workloadHours >= 15 THEN 4
                ELSE IF workloadHours >= 10 THEN 3
                ELSE IF workloadHours >= 5 THEN 2
                ELSE 1
    IN IF qRating < 30 THEN (IF band + 1 < 5 THEN band + 1 ELSE 5)
       ELSE IF qRating > 45 THEN (IF band - 1 > 1 THEN band - 1 ELSE 1)
       ELSE band

\* filters.difficultyRating
DifficultyPass(cs, F) ==
    LET v == Get(F, "difficultyRating") IN
    IF ~Truthy(v) THEN cs
    ELSE SelectSeq(cs, LAMBDA c : DifficultyScore(c) * 10 >= v.num)

\* filters.noFriday === true
NoFridayPass(cs, F) ==
    IF ~IsTrue(Get(F, "noFriday")) THEN cs
    ELSE SelectSeq(cs, LAMBDA c :
            Truthy(c.schedule) /\ ~Includes(c.schedule.str, "Fri"))

\* the class-size pass with the upper ends of small and medium included
ClassSizePassInclusive(cs, F) ==
    LET v == Get(F, "classSize") IN
    IF ~Truthy(v) THEN cs
    ELSE IF v = Str("small")
         THEN SelectSeq(cs, LAMBDA c :
                OrNum(c.class_size, 0) > 0 /\ OrNum(c.class_size, 0) <= 300)
    ELSE IF v = Str("medium")
         THEN SelectSeq(cs, LAMBDA c :
                OrNum(c.class_size, 0) >= 300 /\ OrNum(c.class_size, 0) <= 1000)
    ELSE IF v = Str("large")
         THEN SelectSeq(cs, LAMBDA c : OrNum(c.class_size, 0) >= 1000)
    ELSE cs

\* filters.classSize
ClassSizePass(cs, F) ==
    LET v == Get(F, "classSize") IN
    IF ~Truthy(v) THEN cs
    ELSE IF v = Str("small")
         THEN SelectSeq(cs, LAMBDA c :
                OrNum(c.class_size, 0) > 0 /\ OrNum(c.class_size, 0) < 300)
    ELSE IF v = Str("medium")
         THEN SelectSeq(cs, LAMBDA c :
                OrNum(c.class_size, 0) >= 300 /\ OrNum(c.class_size, 0) < 1000)
    ELSE IF v = Str("large")
         THEN SelectSeq(cs, LAMBDA c : OrNum(c.class_size, 0) >= 1000)
    ELSE cs

\* filters.professor
ProfessorPass(cs, F) ==
    LET v == Get(F, "professor") IN
    IF ~Truthy(v) THEN cs
    ELSE SelectSeq(cs, LAMBDA c :
            Includes(ToLowerCase(c.professor), ToLowerCase(v.str)))

IsMorning(c) ==
    LET s == OrEmpty(c.schedule) IN
    /\ IsStr(c.schedule)
    /\ \/ Includes(ToLowerCase(s), "am")
       \/ MatchesWord(s, {"7", "8", "9", "10", "11"})

IsAfternoon(c) ==
    LET s == OrEmpty(c.schedule) IN
    /\ IsStr(c.schedule)
    /\ \/ Includes(ToLowerCase(s), "pm") /\ MatchesWord(s, {"1", "2", "3", "4"})
       \/ MatchesWord(s, {"12", "13", "14", "15", "16", "17", "18", "19"})

IsEvening(c) ==
    LET s == OrEmpty(c.schedule) IN
    /\ IsStr(c.schedule)
    /\ Includes(ToLowerCase(s), "pm")
    /\ MatchesWord(s, {"5", "6", "7", "8", "9", "10", "11"})

\* the time pass keeping only the courses that match every requested period
TimePassEvery(cs, F) ==
    LET morning == IsTrue(Get(F, "morning"))
        afternoon == IsTrue(Get(F, "afternoon"))
        evening == IsTrue(Get(F, "evening"))
    IN IF ~(morning \/ afternoon \/ evening) THEN cs
       ELSE SelectSeq(cs, LAMBDA c :
                /\ morning => IsMorning(c)
                /\ afternoon => IsAfternoon(c)
                /\ evening => IsEvening(c))

\* filters.morning / afternoon / evening, OR between the periods
TimePass(cs, F) ==
    LET morning == IsTrue(Get(F, "morning"))
        afternoon == IsTrue(Get(F, "afternoon"))
        evening == IsTrue(Get(F, "evening"))
    IN IF ~(morning \/ afternoon \/ evening) THEN cs
       ELSE SelectSeq(cs, LAMBDA c :
                \/ morning /\ IsMorning(c)
                \/ afternoon /\ IsAfternoon(c)
                \/ evening /\ IsEvening(c))

\* MemStorage.searchCourses(filters) on the catalog all
StorageSearch(all, F) ==
    LET s1 == SemesterPass(all, F)
        s2 == QueryPass(s1, F)
        s3 == ConcentrationPass(all, s2, F)
        s4 == GenedPass(s3, F)
        s5 == QRatingPass(s4, F)
        s6 == WorkloadPass(s5, F)
        s7 == WorkloadRatingPass(s6, F)
        s8 == DifficultyPass(s7, F)
        s9 == NoFridayPass(s8, F)
        s10 == ClassSizePass(s9, F)
        s11 == ProfessorPass(s10, F)
    IN TimePass(s11, F)

(***************************************************************************)
(* CourseService.deduplicateCourses.                                       *)
(***************************************************************************)
\* Set.prototype.add on a Set kept in insertion order
SetAdd(xs, x) == IF \E i \in DOMAIN xs : xs[i] = x THEN xs ELSE Append(xs, x)

\* Array.prototype.join
RECURSIVE Join(_, _)
Join(xs, sep) ==
    IF xs = <<>> THEN ""
    ELSE IF Len(xs) = 1 THEN xs[1]
    ELSE xs[1] \o sep \o Join(Tail(xs), sep)

\* the two Maps of deduplicateCourses: order is the insertion order of the
\* keys, unique is uniqueCourses, professors is professorsByCourse
EmptyMaps == [order |-> <<>>, unique |-> <<>>, professors |-> <<>>]

MapIndex(maps, key) == CHOOSE i \in DOMAIN maps.order : maps.order[i] = key
MapHas(maps, key) == \E i \in DOMAIN maps.order : maps.order[i] = key

\* the body of the first forEach with the rating compared by >=
CollectCourseLastWins(maps, course) ==
    LET courseKey == course.course_id
        withKey == IF MapHas(maps, courseKey) THEN maps
                   ELSE [order |-> Append(maps.order, courseKey),
                         unique |-> Append(maps.unique, course),
                         professors |-> Append(maps.professors, <<>>)]
        i == MapIndex(withKey, courseKey)
        added == [withKey EXCEPT !.professors[i] = SetAdd(@, course.professor)]
    IN IF ~MapHas(maps, courseKey)
          \/ OrNum(course.qrating, 0) >= OrNum(maps.unique[i].qrating, 0)
       THEN [added EXCEPT !.unique[i] = course]
       ELSE added

\* the first forEach keeping the first record of a code and taking only the
\* rating of a better section
CollectCourseRatingOnly(maps, course) ==
    LET courseKey == course.course_id
        withKey == IF MapHas(maps, courseKey) THEN maps
                   ELSE [order |-> Append(maps.order, courseKey),
                         unique |-> Append(maps.unique, course),
                         professors |-> Append(maps.professors, <<>>)]
        i == MapIndex(withKey, courseKey)
        added == [withKey EXCEPT !.professors[i] = SetAdd(@, course.professor)]
    IN IF MapHas(maps, courseKey)
          /\ OrNum(course.qrating, 0) > OrNum(maps.unique[i].qrating, 0)
       THEN [added EXCEPT !.unique[i].qrating = course.qrating]
       ELSE added

\* the body of the first forEach for one course
CollectCourse(maps, course) ==
    LET courseKey == course.course_id
        withKey == IF MapHas(maps, courseKey) THEN maps
                   ELSE [order |-> Append(maps.order, courseKey),
                         unique |-> Append(maps.unique, course),
                         professors |-> Append(maps.professors, <<>>)]
        i == MapIndex(withKey, courseKey)
        added == [withKey EXCEPT !.professors[i] = SetAdd(@, course.professor)]
    IN IF ~MapHas(maps, courseKey)
          \/ OrNum(course.qrating, 0) > OrNum(maps.unique[i].qrating, 0)
       THEN [added EXCEPT !.unique[i] = course]
       ELSE added

RECURSIVE CollectAll(_, _)
\* first pass: courses.forEach
CollectAll(maps, cs) ==
    IF cs = <<>> THEN maps ELSE CollectAll(CollectCourse(maps, Head(cs)), Tail(cs))

\* the second pass with the marker test turned around
JoinProfessorsMarked(course, professorsSet) ==
    IF Len(professorsSet) > 1
    THEN LET professors == SubSeq(professorsSet, 1, 2)
         IN IF Len(professors) > 1
            THEN [course EXCEPT !.professor =
                    Join(professors, ", ")
                    \o (IF Len(professors) >= Len(professorsSet) THEN " & others" ELSE "")]
            ELSE course
    ELSE course

\* second pass, for one entry of professorsByCourse
JoinProfessors(course, professorsSet) ==
    IF Len(professorsSet) > 1
    THEN LET professors == SubSeq(professorsSet, 1, 2)
         IN IF Len(professors) > 1
            THEN [course EXCEPT !.professor =
                    Join(professors, ", ")
                    \o (IF Len(professors) < Len(professorsSet) THEN " & others" ELSE "")]
            ELSE course
    ELSE course

\* deduplicateCourses returning the values of uniqueCourses last to first
DeduplicateCoursesReversed(cs) ==
    LET maps == CollectAll(EmptyMaps, cs)
        n == Len(maps.order)
    IN [i \in 1..n |-> JoinProfessors(maps.unique[n + 1 - i], maps.professors[n + 1 - i])]

\* CourseService.deduplicateCourses(courses)
DeduplicateCourses(cs) ==
    LET maps == CollectAll(EmptyMaps, cs)
    IN [i \in 1..Len(maps.order) |-> JoinProfessors(maps.unique[i], maps.professors[i])]

\* the object uniqueCourses holds for a course being the catalog's own record
StoredRefAlias(course) == course.id

\* uniqueCourses.set(courseKey, { ...course }): the id of the catalog record
\* that the stored object is, 0 when it is a new object
StoredRef(course) == 0

\* the catalog after deduplicateCourses has returned the list out: the second
\* pass assigned out[j].professor on the object stored for out[j]
CatalogAfter(all, out) ==
    [i \in DOMAIN all |->
        IF \E j \in DOMAIN out : StoredRef(out[j]) = all[i].id
        THEN LET j == CHOOSE j \in DOMAIN out : StoredRef(out[j]) = all[i].id
             IN [all[i] EXCEPT !.professor = out[j].professor]
        ELSE all[i]]

(***************************************************************************)
(* CourseService.searchCourses.                                            *)
(***************************************************************************)
\* an array index as a property name: "0", "1", ... without leading zeros
IsIndexKey(k) ==
    /\ k # ""
    /\ \A i \in 1..Len(k) : IsDigit(CharAt(k, i))
    /\ (k = "0" \/ CharAt(k, 1) # "0")

\* o[k] = v (CreateDataProperty): an own key keeps its place; a new index key
\* goes among the index keys in ascending order, which come first; any other
\* new key goes last
SetKey(o, k, v) ==
    IF k \in Keys(o) THEN [o EXCEPT ![KeyIndex(o, k)].v = v]
    ELSE IF IsIndexKey(k)
         THEN LET before == SelectSeq(o, LAMBDA p :
                                IsIndexKey(p.k) /\ DigitsValue(p.k) < DigitsValue(k))
                  after == SelectSeq(o, LAMBDA p :
                                ~(IsIndexKey(p.k) /\ DigitsValue(p.k) < DigitsValue(k)))
              IN before \o <<[k |-> k, v |-> v]>> \o after
         ELSE Append(o, [k |-> k, v |-> v])

\* String.prototype.trim
RECURSIVE Trim(_)
Trim(s) ==
    IF s # "" /\ IsSpace(CharAt(s, 1)) THEN Trim(SubSeq(s, 2, Len(s)))
    ELSE IF s # "" /\ IsSpace(CharAt(s, Len(s))) THEN Trim(SubSeq(s, 1, Len(s) - 1))
    ELSE s

RECURSIVE SplitFrom(_, _)
\* the pieces of s between separators, cur being the piece under construction
SplitFrom(s, cur) ==
    IF s = "" THEN <<cur>>
    ELSE IF IsSpace(CharAt(s, 1))
         THEN <<cur>> \o SplitFrom(SkipSpaces(s), "")
         ELSE SplitFrom(SubSeq(s, 2, Len(s)), cur \o CharAt(s, 1))

\* s.split(/\s+/)
SplitSpaces(s) == SplitFrom(s, "")

\* the synonym and abbreviation map of expandedTerms
ExpandTerm(term) ==
    IF term = "cs" \/ term = "comp" THEN "computer"
    ELSE IF term = "classes" \/ term = "class" THEN "course"
    ELSE term

conversationalTerms ==
    {"give", "me", "show", "find", "get", "class", "classes", "course", "courses",
     "with", "in", "a", "the", "that", "has", "have", "are", "is", "would", "like",
     "want", "please", "looking", "for", "gened", "geneds", "gen-ed", "gen-eds"}

markedSubjectiveTerms ==
    {"easy", "simple", "doable", "easier", "hard", "difficult", "challenging",
     "advanced", "tough",
     "good", "great", "best", "excellent", "top", "popular", "recommended",
     "highly-rated", "low", "high",
     "light", "heavy", "manageable", "reasonable", "intensive", "demanding",
     "time-consuming"}

\* the expanded tokens, conversational terms kept
RelevantTermsKeepAll(query) ==
    LET searchTerms == SplitSpaces(ToLowerCase(query))
    IN [i \in DOMAIN searchTerms |-> ExpandTerm(searchTerms[i])]

\* the tokens left after synonym expansion and removal of conversational terms
RelevantTerms(query) ==
    LET searchTerms == SplitSpaces(ToLowerCase(query))
        expandedTerms == [i \in DOMAIN searchTerms |-> ExpandTerm(searchTerms[i])]
    IN SelectSeq(expandedTerms, LAMBDA term :
            term \notin conversationalTerms \/ term \in markedSubjectiveTerms)

\* the semester fallback that also replaces a semester the filters set
UpdatedFiltersOverride(query, filters) ==
    IF query # ""
    THEN LET queryLower == ToLowerCase(query) IN
         IF (Includes(queryLower, "fall") \/ Includes(queryLower, "autumn"))
            /\ ~Includes(queryLower, "spring")
         THEN SetKey(filters, "semester", Str("fall"))
         ELSE IF Includes(queryLower, "spring") /\ ~Includes(queryLower, "fall")
                 /\ ~Includes(queryLower, "autumn")
         THEN SetKey(filters, "semester", Str("spring"))
         ELSE filters
    ELSE filters

\* updatedFilters: the copy of the filters after the semester fallback
UpdatedFilters(query, filters) ==
    IF ~Truthy(Get(filters, "semester")) /\ query # ""
    THEN LET queryLower == ToLowerCase(query) IN
         IF (Includes(queryLower, "fall") \/ Includes(queryLower, "autumn"))
            /\ ~Includes(queryLower, "spring")
         THEN SetKey(filters, "semester", Str("fall"))
         ELSE IF Includes(queryLower, "spring") /\ ~Includes(queryLower, "fall")
                 /\ ~Includes(queryLower, "autumn")
         THEN SetKey(filters, "semester", Str("spring"))
         ELSE filters
    ELSE filters

\* [ ... ].filter(Boolean).join(' ').toLowerCase() of one course
SearchableText(c) ==
    LET parts == << c.course_id, c.title, OrEmpty(c.course_description), c.professor,
                    OrEmpty(c.concentration), Join(c.gen_eds, " "),
                    IF c.concentration = Str("Computer Science") THEN "cs comp" ELSE "" >>
    IN ToLowerCase(Join(SelectSeq(parts, LAMBDA x : x # ""), " "))

\* CourseService.searchCourses(query, filters) on the catalog all
CourseSearch(all, query, filters) ==
    LET filteredCourses == StorageSearch(all, UpdatedFilters(query, filters))
        relevantTerms == RelevantTerms(query)
        queryLower == ToLowerCase(query)
        genedCategory == Get(filters, "genedCategory")
        concentration == Get(filters, "concentration")
    IN IF query = "" \/ Trim(query) = "" THEN filteredCourses
       ELSE IF Len(relevantTerms) = 0 THEN DeduplicateCourses(filteredCourses)
       ELSE IF /\ Truthy(genedCategory)
               /\ \/ Includes(queryLower, "gened")
                  \/ Includes(queryLower, "gen ed")
                  \/ Includes(queryLower, "gen-ed")
            THEN DeduplicateCourses(filteredCourses)
       ELSE IF /\ Truthy(concentration)
               /\ \/ Includes(queryLower, ToLowerCase(concentration.str))
                  \/ concentration = Str("Computer Science") /\ Includes(queryLower, "cs")
            THEN DeduplicateCourses(filteredCourses)
       ELSE DeduplicateCourses(SelectSeq(filteredCourses, LAMBDA c :
                \E i \in DOMAIN relevantTerms : Includes(SearchableText(c), relevantTerms[i])))

(***************************************************************************)
(* The catalog.  The constructor loads the data rows in file order through *)
(* createCourse, which numbers them from 1.                                *)
(***************************************************************************)
\* the entries of prefixMap
prefixMap ==
    { <<"CS", "Computer Science">>, <<"COMPSCI", "Computer Science">>,
      <<"ECON", "Economics">>, <<"MATH", "Mathematics">>, <<"HIST", "History">>,
      <<"GENED", "General Education">>, <<"ENG", "Engineering">>,
      <<"ENGSCI", "Engineering Sciences">>, <<"PSY", "Psychology">>,
      <<"PSYCH", "Psychology">>, <<"BIO", "Biology">>, <<"CHEM", "Chemistry">>,
      <<"PHYS", "Physics">>, <<"GOV", "Government">>, <<"STAT", "Statistics">>,
      <<"AFRAMER", "African and African American Studies">>,
      <<"AMST", "American Studies">>, <<"ANTHRO", "Anthropology">>,
      <<"ARTS", "Visual and Environmental Studies">>, <<"SOCIOL", "Sociology">>,
      <<"PHIL", "Philosophy">>, <<"LING", "Linguistics">>,
      <<"MCB", "Molecular and Cellular Biology">>, <<"NEUROSCI", "Neuroscience">>,
      <<"PHYSCI", "Physical Sciences">>, <<"ENGLISH", "English">>,
      <<"COMPLIT", "Comparative Literature">>,
      <<"EALC", "East Asian Languages and Civilizations">>, <<"FRENCH", "French">>,
      <<"GERMAN", "German">>, <<"SPANISH", "Spanish">>, <<"ITALIAN", "Italian">>,
      <<"CELTIC", "Celtic Languages and Literatures">>,
      <<"SLAVIC", "Slavic Languages and Literatures">>, <<"MUSIC", "Music">>,
      <<"RELIGION", "Religion">>, <<"WOMGEN", "Women, Gender, and Sexuality">> }

\* the length of the match of /^[A-Za-z]+/, 0 without one
LetterRunEnd(s) ==
    IF s = "" \/ CharAt(s, 1) \notin (UpperSet \cup LowerSet) THEN 0
    ELSE CHOOSE j \in 1..Len(s) :
            /\ \A k \in 1..j : CharAt(s, k) \in (UpperSet \cup LowerSet)
            /\ (j = Len(s) \/ CharAt(s, j + 1) \notin (UpperSet \cup LowerSet))

\* courseId.split(' ')[0]
BeforeSpace(s) ==
    LET i == CHOOSE i \in 1..Len(s) :
                CharAt(s, i) = " " /\ \A k \in 1..(i - 1) : CharAt(s, k) # " "
    IN SubSeq(s, 1, i - 1)

\* MemStorage.extractConcentration
ExtractConcentration(courseId) ==
    LET prefix == SubSeq(courseId, 1, LetterRunEnd(courseId))
        departmentCode == IF Includes(courseId, " ") THEN BeforeSpace(courseId) ELSE prefix
    IN IF \E e \in prefixMap : e[1] = departmentCode
       THEN Str((CHOOSE e \in prefixMap : e[1] = departmentCode)[2])
       ELSE Null

dayOptions ==
    << "Mon/Wed", "Tue/Thu", "Mon/Wed/Fri", "Tue/Thu/Fri", "Mon/Fri", "Wed only",
       "Thu only" >>

timeOptions ==
    << "8:30-10:00am", "9:00-10:15am", "10:30-11:45am", "12:00-1:15pm",
       "1:30-2:45pm", "3:00-4:15pm", "4:30-5:45pm", "6:00-7:15pm" >>

\* charCodeAt, for the letters, digits and the space
CharCode(c) ==
    IF c \in UpperSet THEN 64 + IndexIn(UpperLetters, c)
    ELSE IF c \in LowerSet THEN 96 + IndexIn(LowerLetters, c)
    ELSE IF c \in DigitSet THEN 48 + DigitVal(c)
    ELSE 32

\* one round of the hash, ((hash << 5) - hash) + char as a 32-bit integer,
\* the integer kept as its two 16-bit halves
HashStep(hash, char) ==
    LET lo == 31 * hash.lo + char
        hi == 31 * hash.hi + lo \div 65536
    IN [hi |-> hi % 65536, lo |-> lo % 65536]

RECURSIVE HashFrom(_, _, _)
HashFrom(s, i, hash) ==
    IF i > Len(s) THEN hash ELSE HashFrom(s, i + 1, HashStep(hash, CharCode(CharAt(s, i))))

\* MemStorage.generateSchedule
GenerateSchedule(courseId) ==
    LET hash == HashFrom(courseId, 1, [hi |-> 0, lo |-> 0])
        lowest == hash.hi = 32768 /\ hash.lo = 0
        signed == IF hash.hi >= 32768 THEN (hash.hi - 65536) * 65536 + hash.lo
                  ELSE hash.hi * 65536 + hash.lo
        absHash == IF signed < 0 THEN -signed ELSE signed
        dayIndex == IF lowest THEN 2 ELSE absHash % 7
        timeIndex == IF lowest THEN 0 ELSE (absHash \div 16) % 8
    IN dayOptions[dayIndex + 1] \o " " \o timeOptions[timeIndex + 1]

\* v || null
OrNull(v) == IF Truthy(v) THEN v ELSE Null

\* the argument initSampleData gives createCourse for a row of a data file
Row(course_id, title, professor, qrating, description, workload, class_size, gen_eds, term) ==
    [course_id |-> course_id, title |-> title, professor |-> professor,
     qrating |-> OrNull(qrating), course_description |-> OrNull(description),
     average_workload |-> OrNull(workload), class_size |-> OrNull(class_size),
     gen_eds |-> gen_eds, qguide_reviews |-> <<>>,
     concentration |-> ExtractConcentration(course_id),
     schedule |-> Str(GenerateSchedule(course_id)), term |-> Str(term)]

\* the data rows the model draws catalogs from: the rows of the fall file,
\* then the rows of the spring file
SampleRows ==
    << Row("COMPSCI 50", "Intro to Computer Science", "David Malan", Num(48),
           Str("Programming in C"), Str("12 hours per week"), Whole(500), <<>>,
           "Fall 2024"),
       Row("COMPSCI 50", "Intro to Computer Science", "Brian Yu", Num(45),
           Str("Programming in C"), Str("8 hours per week"), Whole(20), <<>>,
           "Fall 2024"),
       Row("ECON 10A", "Principles of Economics", "Jason Furman", Num(40),
           Str("Microeconomics for all"), Str("10 hours per week"), Whole(700), <<>>,
           "Fall 2024"),
       Row("STAT 110", "Probability", "Joe Blitzstein", Num(46),
           Str("An easy fall into chance"), Str("about 9.5 hours"), Whole(30), <<>>,
           "Fall 2024"),
       Row("GENED 1093", "Justice", "Michael Sandel", Whole(0),
           Null, Str(""), Whole(80), <<"Ethics & Civics">>,
           "Spring 2025"),
       Row("ANTHRO 1610", "Ethnography", "Anya Bernstein", Num(28),
           Str("Field methods"), Str("varies"), Null, <<>>,
           "Spring 2025"),
       Row("MATH 55", "Honors Abstract Algebra", "Denis Auroux", Num(30),
           Str("Proof based"), Str("25.5 hours per week"), Whole(12), <<>>,
           "Spring 2025") >>

\* v ?? null
NullishOrNull(v) == IF v = Undefined \/ v = Null THEN Null ELSE v

\* MemStorage.createCourse: the stored record of a row, with the next id
CreateCourse(id, insertCourse) ==
    [id |-> id,
     course_id |-> insertCourse.course_id,
     title |-> insertCourse.title,
     professor |-> insertCourse.professor,
     qrating |-> NullishOrNull(insertCourse.qrating),
     course_description |-> NullishOrNull(insertCourse.course_description),
     average_workload |-> NullishOrNull(insertCourse.average_workload),
     class_size |-> NullishOrNull(insertCourse.class_size),
     gen_eds |-> insertCourse.gen_eds,
     qguide_reviews |-> insertCourse.qguide_reviews,
     concentration |-> NullishOrNull(insertCourse.concentration),
     schedule |-> NullishOrNull(insertCourse.schedule),
     term |-> NullishOrNull(insertCourse.term)]

\* the catalog loaded from the rows picked by the increasing index list idx
LoadCatalog(idx) == [i \in DOMAIN idx |-> CreateCourse(i, SampleRows[idx[i]])]

\* strictly increasing index lists of at most n rows
RowChoices(n) ==
    UNION { { idx \in [1..k -> DOMAIN SampleRows] :
                \A i \in 1..(k - 1) : idx[i] < idx[i + 1] } : k \in 0..n }

(***************************************************************************)
(* JSON.parse, for JSON texts without string escapes or exponents and with *)
(* at most one fractional digit in a number (numbers are kept in tenths).  *)
(* An object value is [obj |-> properties], an array is [arr |-> elements].*)
(* A parse result is [ok, v, rest]: rest is the text after the value.      *)
(***************************************************************************)
ParseFail == [ok |-> FALSE, v |-> Null, rest |-> ""]
ParseOk(v, rest) == [ok |-> TRUE, v |-> v, rest |-> rest]

StartsWith(s, prefix) == Len(s) >= Len(prefix) /\ SubSeq(s, 1, Len(prefix)) = prefix
Drop(s, n) == SubSeq(s, n + 1, Len(s))

\* a string literal at the start of s
ParseString(s) ==
    IF ~StartsWith(s, "\"") \/ ~Includes(Drop(s, 1), "\"") THEN ParseFail
    ELSE LET body == Drop(s, 1)
             close == CHOOSE i \in 1..Len(body) :
                        CharAt(body, i) = "\"" /\ \A j \in 1..(i - 1) : CharAt(body, j) # "\""
         IN ParseOk(Str(SubSeq(body, 1, close - 1)), Drop(body, close))

\* a number literal at the start of s: -? digits (. digit)?, no leading zeros
ParseNumber(s) ==
    LET neg == StartsWith(s, "-")
        u == IF neg THEN Drop(s, 1) ELSE s
        j == DigitRunEnd(u, 1)
        sign == IF neg THEN -1 ELSE 1
        k == DigitRunEnd(u, j + 2)
    IN IF j = 0 \/ (j > 1 /\ CharAt(u, 1) = "0") THEN ParseFail
       ELSE IF j + 1 <= Len(u) /\ CharAt(u, j + 1) = "."
            THEN IF k # j + 2 THEN ParseFail
                 ELSE ParseOk(Num(sign * (DigitsValue(SubSeq(u, 1, j)) * 10
                                          + DigitVal(CharAt(u, k)))), Drop(u, k))
            ELSE ParseOk(Num(sign * DigitsValue(SubSeq(u, 1, j)) * 10), Drop(u, j))

RECURSIVE ParseValue(_), ParseMembers(_, _), ParseElements(_, _)

\* a JSON value at the start of s, after white space
ParseValue(s0) ==
    LET s == SkipSpaces(s0) IN
    IF StartsWith(s, "{")
    THEN LET t == SkipSpaces(Drop(s, 1))
         IN IF StartsWith(t, "}") THEN ParseOk([obj |-> EmptyObject], Drop(t, 1))
            ELSE ParseMembers(t, EmptyObject)
    ELSE IF StartsWith(s, "[")
    THEN LET t == SkipSpaces(Drop(s, 1))
         IN IF StartsWith(t, "]") THEN ParseOk([arr |-> <<>>], Drop(t, 1))
            ELSE ParseElements(t, <<>>)
    ELSE IF StartsWith(s, "\"") THEN ParseString(s)
    ELSE IF StartsWith(s, "true") THEN ParseOk(Bool(TRUE), Drop(s, 4))
    ELSE IF StartsWith(s, "false") THEN ParseOk(Bool(FALSE), Drop(s, 5))
    ELSE IF StartsWith(s, "null") THEN ParseOk(Null, Drop(s, 4))
    ELSE ParseNumber(s)

\* the members of an object after "{", acc the properties read so far
ParseMembers(s0, acc) ==
    LET key == ParseString(SkipSpaces(s0))
        colon == SkipSpaces(key.rest)
        val == ParseValue(Drop(colon, 1))
        next == SkipSpaces(val.rest)
    IN IF ~key.ok \/ ~StartsWith(colon, ":") THEN ParseFail
       ELSE IF ~val.ok THEN ParseFail
       ELSE IF StartsWith(next, ",")
            THEN ParseMembers(Drop(next, 1), SetKey(acc, key.v.str, val.v))
       ELSE IF StartsWith(next, "}")
            THEN ParseOk([obj |-> SetKey(acc, key.v.str, val.v)], Drop(next, 1))
       ELSE ParseFail

\* the elements of an array after "[", acc the elements read so far
ParseElements(s0, acc) ==
    LET val == ParseValue(s0)
        next == SkipSpaces(val.rest)
    IN IF ~val.ok THEN ParseFail
       ELSE IF StartsWith(next, ",") THEN ParseElements(Drop(next, 1), Append(acc, val.v))
       ELSE IF StartsWith(next, "]") THEN ParseOk([arr |-> Append(acc, val.v)], Drop(next, 1))
       ELSE ParseFail

\* JSON.parse(text): ok is FALSE where JSON.parse throws SyntaxError
JSONParse(text) ==
    LET r == ParseValue(text)
    IN IF r.ok /\ SkipSpaces(r.rest) = "" THEN r ELSE ParseFail

(***************************************************************************)
(* ChatService.                                                            *)
(***************************************************************************)
IsObj(v) == DOMAIN v = {"obj"}
IsArr(v) == DOMAIN v = {"arr"}

\* the own enumerable properties an object spread copies from v
OwnProperties(v) ==
    CASE IsObj(v) -> v.obj
      [] IsArr(v) -> [i \in DOMAIN v.arr |-> [k |-> NatToString(i - 1), v |-> v.arr[i]]]
      [] IsStr(v) -> [i \in 1..Len(v.str) |->
                        [k |-> NatToString(i - 1), v |-> Str(CharAt(v.str, i))]]
      [] OTHER -> <<>>

RECURSIVE SpreadKeepExisting(_, _)
\* a spread that leaves a key the target already has as it is
SpreadKeepExisting(target, props) ==
    IF props = <<>> THEN target
    ELSE IF Head(props).k \in Keys(target)
         THEN SpreadKeepExisting(target, Tail(props))
         ELSE SpreadKeepExisting(SetKey(target, Head(props).k, Head(props).v), Tail(props))

RECURSIVE Spread(_, _)
\* { ...target, ...props }: the properties are copied in order
Spread(target, props) ==
    IF props = <<>> THEN target
    ELSE Spread(SetKey(target, Head(props).k, Head(props).v), Tail(props))

\* A completion of the external model call: kind "throw" when create() rejects
\* (or the response has no choices), else content is message.content.
Throws == [kind |-> "throw", content |-> Null]
Completion(content) == [kind |-> "ok", content |-> content]

\* extractFiltersFromMessage returning {} from its inner catch
ExtractFiltersParseEmpty(existingFilters, completion) ==
    IF completion.kind = "throw" THEN existingFilters
    ELSE IF ~Truthy(completion.content) THEN existingFilters
    ELSE LET extracted == JSONParse(completion.content.str)
         IN IF ~extracted.ok THEN EmptyObject
            ELSE Spread(Spread(EmptyObject, existingFilters), OwnProperties(extracted.v))

\* extractFiltersFromMessage returning {} from its outer catch
ExtractFiltersThrowEmpty(existingFilters, completion) ==
    IF completion.kind = "throw" THEN EmptyObject
    ELSE IF ~Truthy(completion.content) THEN existingFilters
    ELSE LET extracted == JSONParse(completion.content.str)
         IN IF ~extracted.ok THEN existingFilters
            ELSE Spread(Spread(EmptyObject, existingFilters), OwnProperties(extracted.v))

\* ChatService.extractFiltersFromMessage, given how the extraction call ended
ExtractFiltersFromMessage(existingFilters, completion) ==
    IF completion.kind = "throw" THEN existingFilters
    ELSE IF ~Truthy(completion.content) THEN existingFilters
    ELSE LET extracted == JSONParse(completion.content.str)
         IN IF ~extracted.ok THEN existingFilters
            ELSE Spread(Spread(EmptyObject, existingFilters), OwnProperties(extracted.v))

\* Object.keys
ObjectKeys(o) == [i \in DOMAIN o |-> o[i].k]

\* the fallback text that is the fixed sentence whenever there are no keys
FallbackResponseSentence(found, filters) ==
    IF Len(found) > 0 /\ Len(ObjectKeys(filters)) > 0
    THEN "Applied filters: " \o Join(ObjectKeys(filters), ", ")
    ELSE "No courses match your criteria."

\* the text generateResponse returns without model content
FallbackResponse(found, filters) ==
    IF Len(found) > 0
    THEN IF Len(ObjectKeys(filters)) > 0
         THEN "Applied filters: " \o Join(ObjectKeys(filters), ", ")
         ELSE ""
    ELSE "No courses match your criteria."

\* ChatService.generateResponse, given how the summary call ended
GenerateResponse(found, filters, completion) ==
    IF completion.kind = "throw" THEN FallbackResponse(found, filters)
    ELSE IF Truthy(completion.content) THEN completion.content.str
    ELSE FallbackResponse(found, filters)

(***************************************************************************)
(* State.                                                                  *)
(***************************************************************************)
VARIABLES
    courses,            \* MemStorage.courses, in id order
    pc,                 \* where the call in progress stands
    searchFilters,      \* the argument of the MemStorage.searchCourses call
    searchResult,       \* what that call returned
    dedupInput,         \* the argument of deduplicateCourses
    dedupOutput,        \* deduplicateCourses(dedupInput)
    dedupTwice,         \* deduplicateCourses(dedupOutput)
    message,            \* processMessage: content
    filters,            \* processMessage: filters
    extraction,         \* how the extraction call ended
    extractedFilters,   \* processMessage: extractedFilters
    found,              \* processMessage: courses
    summary,            \* how the summary call ended
    response,           \* what processMessage returned
    savedCourses,       \* MemStorage.savedCourses, in insertion order
    currentSavedCourseId, \* MemStorage.currentSavedCourseId
    chatMessages,       \* MemStorage.chatMessages, in insertion order
    currentChatMessageId, \* MemStorage.currentChatMessageId
    requests,           \* the POST /api/chat/message requests and where each stands
    storeFilters,       \* useFilterStore: filters
    sentFilters         \* the filters of the last request body the client sent, if any

vars == <<courses, pc, searchFilters, searchResult, dedupInput, dedupOutput,
          dedupTwice, message, filters, extraction, extractedFilters, found,
          summary, response, savedCourses, currentSavedCourseId, chatMessages,
          currentChatMessageId, requests, storeFilters, sentFilters>>

storageVars == <<searchFilters, searchResult>>
dedupVars == <<dedupInput, dedupOutput, dedupTwice>>
chatVars == <<message, filters, extraction, extractedFilters, found, summary, response>>
serverVars == <<savedCourses, currentSavedCourseId, chatMessages, currentChatMessageId, requests>>
clientVars == <<storeFilters, sentFilters>>

NoCompletion == [kind |-> "none", content |-> Null]
NoResponse == [content |-> "", courses |-> <<>>]

StorageIdle == searchFilters = EmptyObject /\ searchResult = <<>>
DedupIdle == dedupInput = <<>> /\ dedupOutput = <<>> /\ dedupTwice = <<>>
ChatIdle ==
    /\ message = "" /\ filters = EmptyObject /\ extraction = NoCompletion
    /\ extractedFilters = EmptyObject /\ found = <<>> /\ summary = NoCompletion
    /\ response = NoResponse
ServerIdle ==
    /\ savedCourses = <<>> /\ currentSavedCourseId = 1
    /\ chatMessages = <<>> /\ currentChatMessageId = 1
    /\ requests = <<>>
ClientIdle == storeFilters = EmptyObject /\ sentFilters = <<>>

(***************************************************************************)
(* MemStorage.searchCourses as a service: a call with a filter object      *)
(* returns its result; the catalog is the one the constructor loaded.      *)
(***************************************************************************)
P(k, v) == [k |-> k, v |-> v]

\* the filter keys searchCourses reads, in the order the model lists them
FilterKeys ==
    << "semester", "query", "concentration", "genedCategory", "qRating",
       "workloadHours", "workloadRating", "difficultyRating", "noFriday",
       "classSize", "professor", "morning", "afternoon", "evening" >>

\* the values the model draws for each key
FilterValues(k) ==
    CASE k = "semester" -> {Str("fall"), Str("spring"), Str("all")}
      [] k = "query" -> {Str("intro")}
      [] k = "concentration" -> {Str("Computer Science"), Str("anthro")}
      [] k = "genedCategory" -> {Bool(TRUE), Str("ethics")}
      [] k = "qRating" -> {Whole(4)}
      [] k = "workloadHours" ->
            {Whole(2), Whole(5), Whole(10), Whole(15), Whole(20), Whole(25),
             Whole(26), Whole(0), Num(98), Str("10"), Str("any")}
      [] k = "workloadRating" -> {Whole(4)}
      [] k = "difficultyRating" -> {Whole(3)}
      [] k = "noFriday" -> {Bool(TRUE), Bool(FALSE)}
      [] k = "classSize" -> {Str("small"), Str("medium"), Str("large")}
      [] k = "professor" -> {Str("malan")}
      [] k = "morning" -> {Bool(TRUE), Bool(FALSE)}
      [] k = "afternoon" -> {Bool(TRUE), Bool(FALSE)}
      [] k = "evening" -> {Bool(TRUE), Bool(FALSE)}

\* most keys a drawn filter object sets
MaxFilterKeys == 2

RECURSIVE FilterObjectsFrom(_, _)
\* the filter objects with at most n keys, all among FilterKeys[j..], keys in
\* the order of FilterKeys
FilterObjectsFrom(j, n) ==
    IF n = 0 \/ j > Len(FilterKeys) THEN {EmptyObject}
    ELSE {EmptyObject} \cup
         UNION { { <<P(FilterKeys[i], v)>> \o rest :
                      v \in FilterValues(FilterKeys[i]),
                      rest \in FilterObjectsFrom(i + 1, n - 1) } :
                 i \in j..Len(FilterKeys) }

FilterObjects(n) == FilterObjectsFrom(1, n)

InitStorage ==
    /\ courses \in {LoadCatalog(idx) : idx \in RowChoices(MaxCourses)}
    /\ pc = "idle"
    /\ StorageIdle /\ DedupIdle /\ ChatIdle /\ ServerIdle /\ ClientIdle

\* a caller invokes storage.searchCourses(F) and the call returns
Search(F) ==
    /\ pc = "idle"
    /\ searchFilters' = F
    /\ searchResult' = StorageSearch(courses, F)
    /\ pc' = "returned"
    /\ UNCHANGED <<courses, dedupVars, chatVars, serverVars, clientVars>>

\* the caller drops the result
Release ==
    /\ pc = "returned"
    /\ pc' = "idle"
    /\ searchFilters' = EmptyObject
    /\ searchResult' = <<>>
    /\ UNCHANGED <<courses, dedupVars, chatVars, serverVars, clientVars>>

NextStorage ==
    \/ pc = "idle" /\ \E F \in FilterObjects(MaxFilterKeys) : Search(F)
    \/ Release

SpecStorage == InitStorage /\ [][NextStorage]_vars

(***************************************************************************)
(* Properties of the workload pass of MemStorage.searchCourses.            *)
(***************************************************************************)
\* the filter object without the key k
Without(F, k) == SelectSeq(F, LAMBDA p : p.k # k)

\* the course with this id is in the list
InList(cs, id) == \E i \in DOMAIN cs : cs[i].id = id

\* the result of the same search without a workloadHours key
WithoutWorkload == StorageSearch(courses, Without(searchFilters, "workloadHours"))

\* the workload field is missing or has no digit in it
NoNumber(w) == ~IsStr(w) \/ \A i \in 1..Len(w.str) : CharAt(w.str, i) \notin DigitSet

\* C5: a search whose workloadHours is 25 returns the same list as the search
\* with the same filter object without the workloadHours key
C5_SentinelIsNoOp ==
    (pc = "returned" /\ Get(searchFilters, "workloadHours") = Whole(25))
        => searchResult = WithoutWorkload

\* a search with workloadHours 25 has returned a course of 25 hours or more
C5_Witness ==
    /\ pc = "returned"
    /\ Get(searchFilters, "workloadHours") = Whole(25)
    /\ \E i \in DOMAIN searchResult :
          searchResult[i].average_workload = Str("25.5 hours per week")

\* C6: whatever workloadHours is requested, a course whose workload field is
\* missing or has no number, and which the search without workloadHours
\* returns, is returned
C6_NoNumberNeverExcluded ==
    pc = "returned" =>
        \A i \in DOMAIN WithoutWorkload :
            NoNumber(WithoutWorkload[i].average_workload)
                => InList(searchResult, WithoutWorkload[i].id)

\* a search whose workload pass dropped a course has returned a course
\* without a number in its workload field
C6_Witness ==
    /\ pc = "returned"
    /\ Len(searchResult) < Len(WithoutWorkload)
    /\ \E i \in DOMAIN searchResult : NoNumber(searchResult[i].average_workload)

\* C7: when workloadHours is a number N below 25, a course with a number h
\* in its workload field that the search without workloadHours returns is
\* returned exactly when h < N
C7_StrictBelowCeiling ==
    LET N == Get(searchFilters, "workloadHours") IN
    (pc = "returned" /\ IsNum(N) /\ N.num < 250) =>
        \A i \in DOMAIN WithoutWorkload :
            LET c == WithoutWorkload[i] IN
            ~NoNumber(c.average_workload) =>
                LET h == ParseFloat(MatchDecimal(c.average_workload.str))
                IN InList(searchResult, c.id) <=> (h.num * 10 < N.num * h.den)

(***************************************************************************)
(* Properties of the time-of-day pass of MemStorage.searchCourses.         *)
(***************************************************************************)
TimeKeys == {"morning", "afternoon", "evening"}

\* the time-of-day flags the filter object sets to true
RequestedPeriods(F) == {k \in TimeKeys : Get(F, k) = Bool(TRUE)}

\* the course's schedule falls in the period the flag k names
MatchesPeriod(c, k) ==
    CASE k = "morning" -> IsMorning(c)
      [] k = "afternoon" -> IsAfternoon(c)
      [] k = "evening" -> IsEvening(c)

\* the result of the same search without any time-of-day key
WithoutTime ==
    StorageSearch(courses, SelectSeq(searchFilters, LAMBDA p : p.k \notin TimeKeys))

\* C20: a search returns, of the courses the same search without time-of-day
\* keys returns, those that match at least one flag set to true; when no flag
\* is true (absent or false) it returns all of them
C20_TimeFlagsOr ==
    pc = "returned" =>
        searchResult =
            IF RequestedPeriods(searchFilters) = {} THEN WithoutTime
            ELSE SelectSeq(WithoutTime, LAMBDA c :
                    \E k \in RequestedPeriods(searchFilters) : MatchesPeriod(c, k))

\* a search with two flags true has returned a course that matches only one
\* of them and has dropped a course that matches neither
C20_Witness ==
    /\ pc = "returned"
    /\ Cardinality(RequestedPeriods(searchFilters)) = 2
    /\ Len(searchResult) < Len(WithoutTime)
    /\ \E i \in DOMAIN searchResult :
          \E k \in RequestedPeriods(searchFilters) : ~MatchesPeriod(searchResult[i], k)

(***************************************************************************)
(* Properties of MemStorage.searchCourses as a whole.                      *)
(***************************************************************************)
\* the course satisfies every filter the filter object sets: each pass, run
\* on this course alone, keeps it
Satisfies(c, F) ==
    LET one == <<c>> IN
    /\ SemesterPass(one, F) = one
    /\ QueryPass(one, F) = one
    /\ ConcentrationPass(one, one, F) = one
    /\ GenedPass(one, F) = one
    /\ QRatingPass(one, F) = one
    /\ WorkloadPass(one, F) = one
    /\ WorkloadRatingPass(one, F) = one
    /\ DifficultyPass(one, F) = one
    /\ NoFridayPass(one, F) = one
    /\ ClassSizePass(one, F) = one
    /\ ProfessorPass(one, F) = one
    /\ TimePass(one, F) = one

\* C14: every course a search returns satisfies every filter of the filter
\* object, the alias "anthro" and its retry included
C14_EveryFilterHolds ==
    pc = "returned" =>
        \A i \in DOMAIN searchResult : Satisfies(searchResult[i], searchFilters)

(***************************************************************************)
(* MemStorage.searchCourses on a catalog loaded from data files whose rows *)
(* spread over the workload bands, the rating adjustments, the class-size  *)
(* buckets and the GenEd labels, searched with one filter at a time.       *)
(***************************************************************************)
\* the rows of the data files, as many as SampleRows has
PassRows ==
    << Row("GENED 1001", "Justice Today", "Michael Sandel", Num(25),
           Str("Moral reasoning"), Str("22 hours"), Whole(29),
           <<"Ethics & Civics">>, "Fall 2024"),
       Row("GENED 1002", "Energy and Climate", "Dan Schrag", Num(49),
           Str("The science of climate"), Str("3 hours"), Whole(30),
           <<"Science & Technology in Society">>, "Fall 2024"),
       Row("ECON 10", "Principles", "Jason Furman", Num(45),
           Str("Markets"), Str("16 hours"), Whole(99),
           <<"Ethics & Civics">>, "Fall 2024"),
       Row("HIST 12", "Modern Europe", "Mary Lewis", Num(29),
           Str("Since 1789"), Str("15-20 hours per week"), Whole(100), <<>>,
           "Fall 2024"),
       Row("MATH 1", "Calculus", "Cliff Taubes", Whole(0),
           Str(""), Str(""), Whole(0), <<>>, "Spring 2025"),
       Row("COMPSCI 61", "Systems", "Eddie Kohler", Num(29),
           Str("Machines"), Str("5 hours"), Whole(1), <<>>, "Spring 2025"),
       Row("STAT 100", "Data", "Kelly McConville", Num(46),
           Str("Inference"), Str("10.5 hours"), Whole(500), <<"">>,
           "Spring 2025") >>

\* the catalog loaded from the rows of PassRows picked by idx
LoadPassCatalog(idx) == [i \in DOMAIN idx |-> CreateCourse(i, PassRows[idx[i]])]

\* the filter objects of the searches: one filter each
PassFilters ==
    { <<P("difficultyRating", Whole(n))>> : n \in 1..5 }
    \cup { <<P("genedCategory", v)>> :
              v \in {Bool(TRUE), Str("true"), Str("GenEd"), Str("ethics"),
                     Str("SCIENCE"), Str("arts")} }
    \cup { <<P("classSize", Str(v))>> : v \in {"small", "medium", "large"} }
    \cup { <<P("genedCategory", Str("civics")), P("difficultyRating", Whole(5))>> }

InitPasses ==
    /\ courses \in {LoadPassCatalog(idx) : idx \in RowChoices(MaxCourses)}
    /\ pc = "idle"
    /\ StorageIdle /\ DedupIdle /\ ChatIdle /\ ServerIdle /\ ClientIdle

NextPasses ==
    \/ pc = "idle" /\ \E F \in PassFilters : Search(F)
    \/ Release

SpecPasses == InitPasses /\ [][NextPasses]_vars

\* the greater and the smaller of two numbers
Max2(a, b) == IF a > b THEN a ELSE b
Min2(a, b) == IF a < b THEN a ELSE b

\* the workload band of a course: 1, and one more for each of 5, 10, 15 and
\* 20 hours that its hours reach
Band(c) == 1 + Cardinality({t \in {5, 10, 15, 20} : IntegerHours(c) >= t})

\* the band raised by 1, at most 5, under a rating below 3.0, and lowered by
\* 1, at least 1, under a rating above 4.5
Difficulty(c) ==
    IF IsNum(c.qrating) /\ c.qrating.num < 30 THEN Min2(5, Band(c) + 1)
    ELSE IF IsNum(c.qrating) /\ c.qrating.num > 45 THEN Max2(1, Band(c) - 1)
    ELSE Band(c)

\* C21: a search with a difficulty floor returns exactly the courses whose
\* difficulty, the workload band adjusted by the rating, an integer from 1
\* to 5, is at least the floor
C21_DifficultyFloor ==
    LET floor == Get(searchFilters, "difficultyRating") IN
    (pc = "returned" /\ searchFilters = <<P("difficultyRating", floor)>>) =>
        /\ \A i \in DOMAIN courses : Difficulty(courses[i]) \in 1..5
        /\ searchResult = SelectSeq(courses, LAMBDA c : Difficulty(c) * 10 >= floor.num)

\* a search with floor 5 has returned a course of 15 to 19 hours rated below
\* 3.0 and has dropped a course
C21_Witness ==
    /\ pc = "returned"
    /\ searchFilters = <<P("difficultyRating", Whole(5))>>
    /\ Len(searchResult) < Len(courses)
    /\ \E i \in DOMAIN searchResult :
          IntegerHours(searchResult[i]) = 15 /\ searchResult[i].qrating = Num(29)

\* the course code marks a GenEd offering
IsGenEdCode(c) == Includes(c.course_id, "GENED")

\* some GenEd label of the course contains the category, letter case aside
LabelMatch(c, v) ==
    /\ IsStr(v)
    /\ \E i \in DOMAIN c.gen_eds : Includes(ToLowerCase(c.gen_eds[i]), ToLowerCase(v.str))

\* the values that ask for every GenEd course: true, "true", and "GENED" in
\* any letter case
AnyMarker(v) == v = Bool(TRUE) \/ v = Str("true") \/ (IsStr(v) /\ ToUpperCase(v.str) = "GENED")

\* C22 as stated: a search with a GenEd category returns exactly the courses
\* with a GenEd code for which the value is the boolean true or some label
\* contains the category
C22_GenedAsStated ==
    LET v == Get(searchFilters, "genedCategory") IN
    (pc = "returned" /\ searchFilters = <<P("genedCategory", v)>>) =>
        searchResult = SelectSeq(courses, LAMBDA c :
                            IsGenEdCode(c) /\ (v = Bool(TRUE) \/ LabelMatch(c, v)))

\* C22: a search with a GenEd category returns exactly the courses with a
\* GenEd code for which the value is an any-marker (true, "true", "GENED")
\* or some label contains the category; a course without a GenEd code is
\* never returned
C22_GenedCategory ==
    LET v == Get(searchFilters, "genedCategory") IN
    (pc = "returned" /\ searchFilters = <<P("genedCategory", v)>>) =>
        searchResult = SelectSeq(courses, LAMBDA c :
                            IsGenEdCode(c) /\ (AnyMarker(v) \/ LabelMatch(c, v)))

\* a search for "ethics" has returned the GenEd course labelled Ethics &
\* Civics and not the economics course with the same label
C22_Witness ==
    /\ pc = "returned"
    /\ searchFilters = <<P("genedCategory", Str("ethics"))>>
    /\ Len(courses) = 2 /\ Len(searchResult) = 1
    /\ searchResult[1].course_id = "GENED 1001"
    /\ \E i \in DOMAIN courses : courses[i].course_id = "ECON 10"

Buckets == {"small", "medium", "large"}

\* the course has a class size and it lies in the range of the bucket
InBucket(c, bucket) ==
    /\ IsNum(c.class_size)
    /\ CASE bucket = "small" -> c.class_size.num < 300
         [] bucket = "medium" -> c.class_size.num >= 300 /\ c.class_size.num <= 990
         [] bucket = "large" -> c.class_size.num >= 1000

\* the search for the bucket alone returns the course
PassesBucket(c, bucket) == InList(StorageSearch(courses, <<P("classSize", Str(bucket))>>), c.id)

\* C23: a search for a class-size bucket returns exactly the courses whose
\* class size lies in the range of the bucket (small below 30, medium 30 to
\* 99, large 100 or more), and no course of the catalog is returned for two
\* different buckets
C23_ClassSizeBuckets ==
    LET v == Get(searchFilters, "classSize") IN
    (pc = "returned" /\ searchFilters = <<P("classSize", v)>>) =>
        /\ searchResult = SelectSeq(courses, LAMBDA c : InBucket(c, v.str))
        /\ \A i \in DOMAIN courses :
              Cardinality({b \in Buckets : PassesBucket(courses[i], b)}) <= 1

\* a search for medium has returned the course of 99 and not the one of 100
C23_Witness ==
    /\ pc = "returned"
    /\ searchFilters = <<P("classSize", Str("medium"))>>
    /\ Len(searchResult) = 1 /\ searchResult[1].class_size = Whole(99)
    /\ \E i \in DOMAIN courses : courses[i].class_size = Whole(100)

(***************************************************************************)
(* MemStorage with its createCourse operation: a caller of the storage     *)
(* interface adds course records to the loaded catalog, and searches it.   *)
(***************************************************************************)
\* most courses added through createCourse
MaxCreated == 2

\* the schedule field of a record given to createCourse: absent, empty, or
\* a schedule string with or without a Friday
InsertSchedules ==
    {Undefined, Str(""), Str("Mon/Wed/Fri 10-11am"), Str("Tue/Thu 1-2:30pm")}

\* a Computer Science course record given to createCourse
InsertCourse(schedule) ==
    [SampleRows[1] EXCEPT !.course_id = "COMPSCI 61", !.title = "Systems",
                          !.schedule = schedule]

\* the filter objects the searches of this specification use
CatalogFilters ==
    { EmptyObject,
      <<P("noFriday", Bool(TRUE))>>,
      <<P("noFriday", Bool(FALSE))>>,
      <<P("concentration", Str("Computer Science")), P("noFriday", Bool(TRUE))>> }

\* storage.createCourse(insertCourse): the record is stored under the next id
CreateCourseCall(insertCourse) ==
    /\ pc = "idle"
    /\ Cardinality({j \in DOMAIN courses : courses[j].title = "Systems"}) < MaxCreated
    /\ courses' = Append(courses, CreateCourse(Len(courses) + 1, insertCourse))
    /\ UNCHANGED <<pc, storageVars, dedupVars, chatVars, serverVars, clientVars>>

NextCatalog ==
    \/ pc = "idle" /\ \E schedule \in InsertSchedules : CreateCourseCall(InsertCourse(schedule))
    \/ pc = "idle" /\ \E F \in CatalogFilters : Search(F)
    \/ Release

SpecCatalog == InitStorage /\ [][NextCatalog]_vars

\* the schedule names a Friday
HasFridayMarker(c) == IsStr(c.schedule) /\ Includes(c.schedule.str, "Fri")

\* the result of the same search without the noFriday key
WithoutNoFriday == StorageSearch(courses, Without(searchFilters, "noFriday"))

\* C12: a search with noFriday true returns, of the courses the same search
\* without noFriday returns, exactly those whose schedule has no Friday
\* marker, a course with a missing (null or empty) schedule among them
C12_NoFridayPassByDefault ==
    (pc = "returned" /\ Get(searchFilters, "noFriday") = Bool(TRUE)) =>
        searchResult = SelectSeq(WithoutNoFriday, LAMBDA c : ~HasFridayMarker(c))

(***************************************************************************)
(* CourseService.searchCourses as the course search route calls it: the    *)
(* request gives a query and a filter object, and the response is the list *)
(* searchCourses returns.  searchFilters and searchResult are the argument *)
(* and the result of the storage search it makes.                          *)
(***************************************************************************)
\* the queries of the requests
Queries ==
    {"", " ", "show me classes", "Fall cs", "autumn", "spring ethics",
     "fall or spring", "malan", "fall", "easy gened"}

\* the filter objects of the requests
CourseFilters ==
    { EmptyObject,
      <<P("semester", Str("all"))>>,
      <<P("semester", Str("spring"))>>,
      <<P("semester", Str("fall")), P("concentration", Str("Computer Science"))>>,
      <<P("concentration", Str("Computer Science"))>>,
      <<P("genedCategory", Bool(TRUE))>>,
      <<P("noFriday", Bool(TRUE))>> }

\* POST /api/courses/search: courseService.searchCourses(query, filters)
SearchCoursesCall(query, F) ==
    /\ pc = "idle"
    /\ message' = query
    /\ filters' = F
    /\ searchFilters' = UpdatedFilters(query, F)
    /\ searchResult' = StorageSearch(courses, UpdatedFilters(query, F))
    /\ found' = CourseSearch(courses, query, F)
    /\ courses' = CatalogAfter(courses, CourseSearch(courses, query, F))
    /\ pc' = "returned"
    /\ UNCHANGED <<extraction, extractedFilters, summary, response, dedupVars, serverVars, clientVars>>

\* the response is sent
SearchCoursesReturn ==
    /\ pc = "returned"
    /\ pc' = "idle"
    /\ message' = "" /\ filters' = EmptyObject /\ found' = <<>>
    /\ searchFilters' = EmptyObject /\ searchResult' = <<>>
    /\ UNCHANGED <<courses, extraction, extractedFilters, summary, response, dedupVars, serverVars, clientVars>>

NextCourse ==
    \/ pc = "idle" /\ \E query \in Queries, F \in CourseFilters : SearchCoursesCall(query, F)
    \/ SearchCoursesReturn

SpecCourse == InitStorage /\ [][NextCourse]_vars

\* the list has a record with this course code
HasCode(cs, code) == \E i \in DOMAIN cs : cs[i].course_id = code

\* every token of the query is, after expansion, a conversational term that
\* is not a subjective one
AllConversational(query) ==
    LET tokens == SplitSpaces(ToLowerCase(query)) IN
    \A i \in DOMAIN tokens :
        ExpandTerm(tokens[i]) \in conversationalTerms \ markedSubjectiveTerms

\* C11: when every token of a non-blank query is conversational, the list
\* searchCourses returns has a record for every course code that the storage
\* search under the filters returned
C11_NoiseQueryKeepsEveryCode ==
    (pc = "returned" /\ Trim(message) # "" /\ AllConversational(message)) =>
        \A i \in DOMAIN searchResult : HasCode(found, searchResult[i].course_id)

\* "show me classes" has returned one record for two sections of a course
\* that passed the filters
C11_Witness ==
    /\ pc = "returned"
    /\ message = "show me classes"
    /\ Len(searchResult) = 2 /\ Len(found) = 1
    /\ searchResult[1].course_id = searchResult[2].course_id

\* the query mentions fall or autumn / spring, in any letter case
MentionsFall == Includes(ToLowerCase(message), "fall") \/ Includes(ToLowerCase(message), "autumn")
MentionsSpring == Includes(ToLowerCase(message), "spring")

\* C13: the filters given to the storage search are the request's filters,
\* except that without a semester among them a query mentioning fall or
\* autumn and not spring adds semester "fall", and a query mentioning spring
\* and neither fall nor autumn adds semester "spring"; a semester already
\* set, "all" included, or a query mentioning both leaves them as they are
C13_SemesterFallback ==
    pc = "returned" =>
        LET set == Get(filters, "semester") # Undefined IN
        /\ (~set /\ MentionsFall /\ ~MentionsSpring) =>
              /\ Get(searchFilters, "semester") = Str("fall")
              /\ Without(searchFilters, "semester") = filters
        /\ (~set /\ MentionsSpring /\ ~MentionsFall) =>
              /\ Get(searchFilters, "semester") = Str("spring")
              /\ Without(searchFilters, "semester") = filters
        /\ (set \/ (MentionsFall /\ MentionsSpring)) => searchFilters = filters

\* a query in capitals mentioning fall has added semester "fall" to a filter
\* object without a semester, and only fall courses came back
C13_Witness ==
    /\ pc = "returned"
    /\ message = "Fall cs"
    /\ filters = <<P("concentration", Str("Computer Science"))>>
    /\ Get(searchFilters, "semester") = Str("fall")
    /\ Len(found) > 0

\* C17: the list searchCourses returns has at most one record per course
\* code, whatever the query, blank ones included, and the filters
C17_ResultDeduplicated ==
    pc = "returned" =>
        \A i, j \in DOMAIN found : found[i].course_id = found[j].course_id => i = j

\* the code, title, description, instructor, department and GenEd labels of
\* a course, in lower case and separated by spaces
CourseText(c) ==
    ToLowerCase(c.course_id \o " " \o c.title \o " " \o OrEmpty(c.course_description)
                \o " " \o c.professor \o " " \o OrEmpty(c.concentration)
                \o " " \o Join(c.gen_eds, " "))

\* C24: when a token of the query remains after normalization, every course
\* searchCourses returns has one of the remaining tokens in its text
C24_ReturnedMatchesToken ==
    (pc = "returned" /\ Trim(message) # "" /\ ~AllConversational(message)) =>
        \A i \in DOMAIN found :
            \E j \in DOMAIN RelevantTerms(message) :
                Includes(CourseText(found[i]), RelevantTerms(message)[j])

\* C27: for the query "fall" and filters without a semester, searchCourses
\* returns a record for every course code that the storage search under the
\* filters with semester "fall" added returns
C27_SemesterKeywordAddsNoTextFilter ==
    (pc = "returned" /\ message = "fall" /\ Get(filters, "semester") = Undefined) =>
        \A i \in DOMAIN StorageSearch(courses, SetKey(filters, "semester", Str("fall"))) :
            HasCode(found, StorageSearch(courses, SetKey(filters, "semester", Str("fall")))[i].course_id)

(***************************************************************************)
(* CourseService.deduplicateCourses as a pure function: the input is drawn *)
(* in the initial state, and the function is applied to it and then to its *)
(* own output.                                                             *)
(***************************************************************************)
DedupCodes == {"CS50", "CS51"}
DedupProfessors == {"A", "B", "C"}
DedupRatings == {Null, Num(0), Num(40), Num(45)}

\* a section of a course: the record with the given id, code, instructor
\* and rating, its other fields those of a data row
Section(id, code, professor, qrating) ==
    [CreateCourse(id, SampleRows[1]) EXCEPT
        !.course_id = code, !.professor = professor, !.qrating = qrating]

\* the code, instructor and rating a section can have
SectionChoices ==
    {[code |-> c, professor |-> p, qrating |-> r] :
        c \in DedupCodes, p \in DedupProfessors, r \in DedupRatings}

\* the list of the sections chosen, the section at place i having id i
SectionList(choice) ==
    [i \in DOMAIN choice |->
        Section(i, choice[i].code, choice[i].professor, choice[i].qrating)]

\* the input is a list of at most MaxDedupLen sections
InitDedup ==
    /\ \E k \in 0..MaxDedupLen :
          \E choice \in [1..k -> SectionChoices] : dedupInput = SectionList(choice)
    /\ dedupOutput = <<>> /\ dedupTwice = <<>>
    /\ pc = "input"
    /\ courses = <<>>
    /\ StorageIdle /\ ChatIdle /\ ServerIdle /\ ClientIdle

\* deduplicateCourses(dedupInput)
Deduplicate ==
    /\ pc = "input"
    /\ dedupOutput' = DeduplicateCourses(dedupInput)
    /\ pc' = "once"
    /\ UNCHANGED <<courses, dedupInput, dedupTwice, storageVars, chatVars, serverVars, clientVars>>

\* deduplicateCourses on the output of the first call
DeduplicateAgain ==
    /\ pc = "once"
    /\ dedupTwice' = DeduplicateCourses(dedupOutput)
    /\ pc' = "twice"
    /\ UNCHANGED <<courses, dedupInput, dedupOutput, storageVars, chatVars, serverVars, clientVars>>

NextDedup == Deduplicate \/ DeduplicateAgain

SpecDedup == InitDedup /\ [][NextDedup]_vars

(***************************************************************************)
(* Properties of deduplicateCourses.                                       *)
(***************************************************************************)
\* the places of the input records with this course code
RowsOf(code) == {i \in DOMAIN dedupInput : dedupInput[i].course_id = code}

\* a rating with null counted as 0
RatingOf(course) == IF IsNum(course.qrating) THEN course.qrating.num ELSE 0

\* the first place, among the input records with this code, of a record
\* whose rating no record with this code exceeds
FirstBest(code) ==
    CHOOSE i \in RowsOf(code) :
        /\ \A j \in RowsOf(code) : RatingOf(dedupInput[j]) <= RatingOf(dedupInput[i])
        /\ \A j \in RowsOf(code) :
              RatingOf(dedupInput[j]) = RatingOf(dedupInput[i]) => i <= j

\* the distinct instructors of the input records with this code
InstructorsOf(code) == {dedupInput[i].professor : i \in RowsOf(code)}

\* C8: deduplicating the output of a deduplication returns that output:
\* same records, same field values, same order
C8_Idempotent == pc = "twice" => dedupTwice = dedupOutput

\* a deduplication that merged sections of two courses and rewrote an
\* instructor field has been deduplicated again
C8_Witness ==
    /\ pc = "twice"
    /\ Len(dedupOutput) = 2
    /\ Len(dedupInput) = 3
    /\ \E i \in DOMAIN dedupOutput : dedupOutput[i].professor \notin DedupProfessors

\* C9: the output has exactly one record for each course code of the input
\* and none for any other code; the record for a code has the highest rating
\* of the input records with that code, null counted as 0, and is the first
\* of the input records with that rating
C9_OnePerCodeHighestRating ==
    pc = "once" =>
        /\ \A i \in DOMAIN dedupInput :
              Cardinality({k \in DOMAIN dedupOutput :
                              dedupOutput[k].course_id = dedupInput[i].course_id}) = 1
        /\ \A k \in DOMAIN dedupOutput :
              LET code == dedupOutput[k].course_id IN
              /\ RowsOf(code) # {}
              /\ \A j \in RowsOf(code) : RatingOf(dedupInput[j]) <= RatingOf(dedupOutput[k])
              /\ dedupOutput[k].id = dedupInput[FirstBest(code)].id
              /\ dedupOutput[k].qrating = dedupInput[FirstBest(code)].qrating

\* three sections of one course, the second and third tied for the highest
\* rating, were deduplicated to the second
C9_Witness ==
    /\ pc = "once"
    /\ Len(dedupInput) = 3
    /\ RowsOf("CS50") = {1, 2, 3}
    /\ RatingOf(dedupInput[1]) < RatingOf(dedupInput[2])
    /\ RatingOf(dedupInput[2]) = RatingOf(dedupInput[3])
    /\ Len(dedupOutput) = 1 /\ dedupOutput[1].id = 2

\* C10: for a code with more than one distinct instructor the output record's
\* instructor field is two of those instructors joined by ", ", followed by
\* " & others" exactly when there are more than two; for a code with one
\* instructor the field is that instructor; and the rows (A, 4.0), (B, 4.5)
\* of one code give one record with rating 4.5 whose field contains A and B
C10_InstructorField ==
    pc = "once" =>
        /\ \A k \in DOMAIN dedupOutput :
              LET code == dedupOutput[k].course_id
                  names == InstructorsOf(code)
                  field == dedupOutput[k].professor
              IN IF Cardinality(names) > 1
                 THEN \E a \in names : \E b \in names \ {a} :
                        field = a \o ", " \o b
                                \o (IF Cardinality(names) > 2 THEN " & others" ELSE "")
                 ELSE field \in names /\ field = dedupInput[FirstBest(code)].professor
        /\ dedupInput = <<Section(1, "CS50", "A", Num(40)), Section(2, "CS50", "B", Num(45))>>
              => /\ Len(dedupOutput) = 1
                 /\ dedupOutput[1].qrating = Num(45)
                 /\ Includes(dedupOutput[1].professor, "A")
                 /\ Includes(dedupOutput[1].professor, "B")

\* three sections of one course with three instructors were deduplicated to
\* a record naming two of them and the marker
C10_Witness ==
    /\ pc = "once"
    /\ Len(dedupInput) = 3
    /\ InstructorsOf("CS51") = DedupProfessors
    /\ Len(dedupOutput) = 1
    /\ dedupOutput[1].professor = "B, A & others"

\* the input record that the output record at place k was copied from
Representative(k) == dedupInput[FirstBest(dedupOutput[k].course_id)]

\* C26: whenever the instructor field of a representative is rewritten to a
\* joined list, the list contains the representative's own instructor
C26_JoinedListNamesRepresentative ==
    pc = "once" =>
        \A k \in DOMAIN dedupOutput :
            dedupOutput[k].professor # Representative(k).professor
                => Includes(dedupOutput[k].professor, Representative(k).professor)

\* the first place of an input record with this code
FirstRow(code) == CHOOSE i \in RowsOf(code) : \A j \in RowsOf(code) : i <= j

\* C29: the codes of the output are the distinct codes of the input in the
\* order of their first occurrence, and every field of an output record
\* other than the instructor is the field of one input record with its code
C29_FirstOccurrenceOrderAndFields ==
    pc = "once" =>
        /\ {dedupOutput[k].course_id : k \in DOMAIN dedupOutput}
              = {dedupInput[i].course_id : i \in DOMAIN dedupInput}
        /\ \A k \in DOMAIN dedupOutput : \A l \in DOMAIN dedupOutput :
              k < l => FirstRow(dedupOutput[k].course_id) < FirstRow(dedupOutput[l].course_id)
        /\ \A k \in DOMAIN dedupOutput :
              \E j \in RowsOf(dedupOutput[k].course_id) :
                  [dedupOutput[k] EXCEPT !.professor = dedupInput[j].professor] = dedupInput[j]

\* sections of two courses, the later code first and the better section of
\* each code not its first, were deduplicated with an instructor rewritten
C29_Witness ==
    /\ pc = "once"
    /\ Len(dedupInput) = 3
    /\ dedupInput[1].course_id = "CS51"
    /\ RowsOf("CS50") = {2, 3}
    /\ RatingOf(dedupInput[2]) < RatingOf(dedupInput[3])
    /\ dedupInput[2].professor # dedupInput[3].professor
    /\ Len(dedupOutput) = 2
    /\ dedupOutput[2].id = 3
    /\ dedupOutput[2].professor \notin DedupProfessors

(***************************************************************************)
(* ChatService.processMessage: one request at a time, a step per await.    *)
(***************************************************************************)
\* the message texts the model draws
Messages == {"show me classes", "fall", "easy cs", "hello"}

\* the filter objects a request carries
RequestFilters ==
    { EmptyObject,
      <<P("semester", Str("spring"))>>,
      <<P("concentration", Str("Computer Science")), P("noFriday", Bool(TRUE))>>,
      <<P("workloadHours", Whole(10))>> }

\* response texts that are not JSON
NotJsonTexts ==
    { "Sure, here are the filters",
      "{semester: \"fall\"}",
      "{\"semester\":\"fall\"",
      "{\"semester\":\"fall\",}" }

\* response texts that are a JSON object of recognized filters
FilterObjectTexts ==
    { "{}",
      "{\"semester\":\"fall\"}",
      "{\"workloadHours\":25,\"noFriday\":false}",
      "{\"concentration\":\"Economics\", \"semester\":\"all\"}" }

\* response texts that are JSON but no object of recognized filters
OtherJsonTexts ==
    { "{\"color\":\"red\"}",
      "{\"semester\":\"winter\"}",
      "[\"fall\"]",
      "\"fall\"",
      "null" }

\* the ways the extraction call can end
ExtractionCompletions ==
    {Throws, Completion(Null), Completion(Str(""))}
    \cup {Completion(Str(t)) : t \in NotJsonTexts \cup FilterObjectTexts \cup OtherJsonTexts}

\* the ways the summary call can end
SummaryCompletions ==
    {Throws, Completion(Null), Completion(Str("")), Completion(Str("Here is what I found."))}

InitChat ==
    /\ courses \in {LoadCatalog(idx) : idx \in RowChoices(MaxCourses)}
    /\ pc = "idle"
    /\ StorageIdle /\ DedupIdle /\ ChatIdle /\ ServerIdle /\ ClientIdle

\* processMessage(content, requestFilters) is called and awaits the extraction call
ProcessMessage(content, requestFilters) ==
    /\ pc = "idle"
    /\ message' = content
    /\ filters' = requestFilters
    /\ pc' = "extracting"
    /\ UNCHANGED <<courses, extraction, extractedFilters, found, summary, response,
                   storageVars, dedupVars, serverVars, clientVars>>

\* extractFiltersFromMessage going on only when the call returns a response
ExtractionEndsOnResponse(completion) ==
    /\ pc = "extracting"
    /\ completion.kind = "ok"
    /\ extraction' = completion
    /\ extractedFilters' = ExtractFiltersFromMessage(filters, completion)
    /\ pc' = "searching"
    /\ UNCHANGED <<courses, message, filters, found, summary, response,
                   storageVars, dedupVars, serverVars, clientVars>>

\* the extraction call ends and extractFiltersFromMessage returns
ExtractionEnds(completion) ==
    /\ pc = "extracting"
    /\ extraction' = completion
    /\ extractedFilters' = ExtractFiltersFromMessage(filters, completion)
    /\ pc' = "searching"
    /\ UNCHANGED <<courses, message, filters, found, summary, response,
                   storageVars, dedupVars, serverVars, clientVars>>

\* courseService.searchCourses(content, extractedFilters) returns
SearchCourses ==
    /\ pc = "searching"
    /\ found' = CourseSearch(courses, message, extractedFilters)
    /\ courses' = CatalogAfter(courses, CourseSearch(courses, message, extractedFilters))
    /\ pc' = "summarizing"
    /\ UNCHANGED <<message, filters, extraction, extractedFilters, summary,
                   response, storageVars, dedupVars, serverVars, clientVars>>

\* the summary call ends and the payload carries the courses of a new search
SummaryEndsSearchAgain(completion) ==
    /\ pc = "summarizing"
    /\ summary' = completion
    /\ response' = [content |-> GenerateResponse(found, extractedFilters, completion),
                    courses |-> StorageSearch(courses, extractedFilters)]
    /\ pc' = "done"
    /\ UNCHANGED <<courses, message, filters, extraction, extractedFilters, found,
                   storageVars, dedupVars, serverVars, clientVars>>

\* the summary call ends, generateResponse returns and processMessage returns
SummaryEnds(completion) ==
    /\ pc = "summarizing"
    /\ summary' = completion
    /\ response' = [content |-> GenerateResponse(found, extractedFilters, completion),
                    courses |-> found]
    /\ pc' = "done"
    /\ UNCHANGED <<courses, message, filters, extraction, extractedFilters, found,
                   storageVars, dedupVars, serverVars, clientVars>>

\* the caller has the response; the next request may come
Finish ==
    /\ pc = "done"
    /\ pc' = "idle"
    /\ message' = "" /\ filters' = EmptyObject /\ extraction' = NoCompletion
    /\ extractedFilters' = EmptyObject /\ found' = <<>> /\ summary' = NoCompletion
    /\ response' = NoResponse
    /\ UNCHANGED <<courses, storageVars, dedupVars, serverVars, clientVars>>

NextChat ==
    \/ \E content \in Messages, requestFilters \in RequestFilters :
          ProcessMessage(content, requestFilters)
    \/ \E completion \in ExtractionCompletions : ExtractionEnds(completion)
    \/ SearchCourses
    \/ \E completion \in SummaryCompletions : SummaryEnds(completion)
    \/ Finish

SpecChat == InitChat /\ [][NextChat]_vars

(***************************************************************************)
(* The chat request with an external service that may never respond.  The  *)
(* client gives up on a call after a bounded time and rejects it, which    *)
(* the service's catch blocks handle as any other rejection.  Only the     *)
(* client's timeout and the in-memory search are sure to happen; a         *)
(* response of the external service is not.  The search is synchronous, so *)
(* a request does not stay in it: SearchCourses is enabled exactly when pc *)
(* is "searching" and is the only step that leaves it, which makes         *)
(* []<>(pc # "searching") the weak fairness of SearchCourses.              *)
(***************************************************************************)
\* the call in progress times out: create() rejects
ExternalTimeout ==
    \/ ExtractionEnds(Throws)
    \/ SummaryEnds(Throws)

NextChatLive == NextChat \/ ExternalTimeout

SpecChatLive ==
    InitChat /\ [][NextChatLive]_vars /\ WF_vars(ExternalTimeout) /\ []<>(pc # "searching")

(***************************************************************************)
(* Properties of extractFiltersFromMessage and processMessage.             *)
(***************************************************************************)
\* the extraction call returned this text
Returned(text) == extraction = Completion(Str(text))

\* the object each text of FilterObjectTexts and each object text of
\* OtherJsonTexts denotes, written out by hand
ObjectOf(text) ==
    CASE text = "{}" -> EmptyObject
      [] text = "{\"semester\":\"fall\"}" -> <<P("semester", Str("fall"))>>
      [] text = "{\"workloadHours\":25,\"noFriday\":false}" ->
            <<P("workloadHours", Whole(25)), P("noFriday", Bool(FALSE))>>
      [] text = "{\"concentration\":\"Economics\", \"semester\":\"all\"}" ->
            <<P("concentration", Str("Economics")), P("semester", Str("all"))>>
      [] text = "{\"color\":\"red\"}" -> <<P("color", Str("red"))>>
      [] text = "{\"semester\":\"winter\"}" -> <<P("semester", Str("winter"))>>

\* the texts that denote an object
ObjectTexts == FilterObjectTexts \cup {"{\"color\":\"red\"}", "{\"semester\":\"winter\"}"}

\* C1: when the extraction call returns the text of a JSON object E, the
\* returned filter set has every key of E with E's value, every key of the
\* existing set that E lacks with the existing value, no other key, and no
\* key twice
C1_ShallowOverride ==
    \A text \in ObjectTexts :
        Returned(text) =>
            LET E == ObjectOf(text) IN
            /\ \A k \in Keys(E) : Get(extractedFilters, k) = Get(E, k)
            /\ \A k \in Keys(filters) \ Keys(E) : Get(extractedFilters, k) = Get(filters, k)
            /\ Keys(extractedFilters) = Keys(E) \cup Keys(filters)
            /\ Len(extractedFilters) = Cardinality(Keys(extractedFilters))

\* an extraction has replaced the semester of the existing set and kept
\* nothing else
C1_Witness ==
    /\ filters = <<P("semester", Str("spring"))>>
    /\ Returned("{\"concentration\":\"Economics\", \"semester\":\"all\"}")
    /\ extractedFilters = <<P("semester", Str("all")), P("concentration", Str("Economics"))>>

\* C2: when the extraction call throws, returns no content or returns text
\* that is not JSON, extractFiltersFromMessage returns the existing filter
\* set, same keys and same values, and processMessage goes on to the search
C2_FallbackToExisting ==
    (\/ extraction = Throws
     \/ extraction = Completion(Null)
     \/ extraction = Completion(Str(""))
     \/ \E text \in NotJsonTexts : Returned(text))
        => /\ extractedFilters = filters
           /\ pc \in {"searching", "summarizing", "done"}

\* an extraction that returned JSON text cut short has left a set of two
\* filters as it was
C2_Witness ==
    /\ Returned("{\"semester\":\"fall\"")
    /\ Len(filters) = 2
    /\ extractedFilters = filters
    /\ pc = "searching"

\* C3: when the extraction call returns JSON that is no object of recognized
\* filters (an unrecognized key, a value outside its key's domain, an array,
\* a string, null), extractFiltersFromMessage returns the existing filter set
C3_NonconformingKeepsExisting ==
    (\E text \in OtherJsonTexts : Returned(text)) => extractedFilters = filters

\* C4: when the extraction call throws, processMessage returns a response
\* computed with the filter set of the request: its courses are
\* searchCourses(content, filters) and its text is what generateResponse
\* gives for those courses and filters
C4_FailureUsesRequestFilters ==
    (pc = "done" /\ extraction = Throws) =>
        /\ extractedFilters = filters
        /\ response.courses = CourseSearch(courses, message, filters)
        /\ response.content = GenerateResponse(response.courses, filters, summary)

\* both calls to the model threw and processMessage returned the spring
\* courses and the names of the filters of the request
C4_Witness ==
    /\ pc = "done"
    /\ extraction = Throws /\ summary = Throws
    /\ filters = <<P("semester", Str("spring"))>>
    /\ Len(response.courses) = 2
    /\ response.content = "Applied filters: semester"

(***************************************************************************)
(* Properties of ChatService.generateResponse and of the request pipeline. *)
(***************************************************************************)
RECURSIVE NamesList(_)
\* the names of the filters of a non-empty filter object, separated by ", "
NamesList(F) ==
    IF Len(F) = 1 THEN F[1].k ELSE F[1].k \o ", " \o NamesList(Tail(F))

\* the summary call threw or returned no content
SummaryFailed == summary = Throws \/ (summary.kind = "ok" /\ ~Truthy(summary.content))

\* C15: when the summary call throws or returns empty content, the text of
\* the response is the fixed sentence if no course matched, and otherwise
\* the empty string if the filter set has no key, else the list of its names
C15_Fallback ==
    (pc = "done" /\ SummaryFailed) =>
        response.content =
            IF found = <<>> THEN "No courses match your criteria."
            ELSE IF extractedFilters = EmptyObject THEN ""
            ELSE "Applied filters: " \o NamesList(extractedFilters)

\* the summary call threw for a request that matched courses under two filters
C15_Witness ==
    /\ pc = "done"
    /\ summary = Throws
    /\ Len(found) > 0
    /\ response.content = "Applied filters: concentration, noFriday"

\* C18: within a request the steps run in order, once each: the extraction
\* call ends before matching starts, matching and deduplication end before
\* the summary call is issued, the summary call ends last, and the payload
\* carries the course list the summary call was given; the two external
\* calls end once each
C18_PipelineOrder ==
    [][ /\ pc = "idle" =>
            pc' = "extracting" /\ extraction' = NoCompletion /\ summary' = NoCompletion
        /\ pc = "extracting" =>
            pc' = "searching" /\ extraction' # NoCompletion /\ UNCHANGED <<found, summary>>
        /\ pc = "searching" =>
            pc' = "summarizing" /\ UNCHANGED <<extraction, extractedFilters, summary>>
        /\ pc = "summarizing" =>
            /\ pc' = "done" /\ summary' # NoCompletion
            /\ UNCHANGED <<extraction, extractedFilters, found>>
            /\ response'.courses = found
        /\ pc = "done" => pc' = "idle"
      ]_vars

\* a request has gone through both external calls and returned two courses
C18_Witness ==
    /\ pc = "done"
    /\ extraction.kind = "ok" /\ summary.kind = "ok"
    /\ Len(found) = 2
    /\ response.courses = found

MaxSavedId == 5

\* the routes' default user
DefaultUser == 1

\* the courseId values of the bodies of POST /api/courses/save
SaveBodies == {Undefined, Str("1"), Whole(0), Whole(1), Whole(2), Whole(3), Whole(7), Num(15)}

\* the courseId query parameters of DELETE /api/courses/saved
DeleteParams == {Undefined, Str(""), Str("abc"), Str("0"), Str("1"), Str("2"), Str("3"), Str("3rd"), Str("7")}

\* MemStorage.getCourse(id) for a JavaScript number: the place of the course
\* in the catalog, 0 when there is none
GetCourse(all, courseId) ==
    IF \E i \in DOMAIN all : all[i].id * 10 = courseId.num
    THEN CHOOSE i \in DOMAIN all : all[i].id * 10 = courseId.num
    ELSE 0

\* the entry saveCourse stores under id; userId || null and courseId || null
\* keep a number other than 0, and 0 stands for null
SavedCourseEntry(id, userId, courseId) ==
    [id |-> id, userId |-> userId, courseId |-> courseId]

\* MemStorage.saveCourse(insertSavedCourse): savedCourses after the call
SaveCourse(saved, id, userId, courseId) ==
    Append(saved, SavedCourseEntry(id, userId, courseId))

\* the places of the entries of this user for this course
EntriesOf(saved, userId, courseId) ==
    {i \in DOMAIN saved : saved[i].userId = userId /\ saved[i].courseId = courseId}

\* MemStorage.removeSavedCourse(userId, courseId): savedCourses after the call
RemoveSavedCourse(saved, userId, courseId) ==
    IF EntriesOf(saved, userId, courseId) = {} THEN saved
    ELSE LET first == CHOOSE i \in EntriesOf(saved, userId, courseId) :
                          \A j \in EntriesOf(saved, userId, courseId) : i <= j
         IN [i \in 1..(Len(saved) - 1) |-> IF i < first THEN saved[i] ELSE saved[i + 1]]

\* MemStorage.getSavedCourses(userId)
GetSavedCourses(saved, all, userId) ==
    LET courseIds == {saved[i].courseId : i \in {j \in DOMAIN saved : saved[j].userId = userId}}
    IN SelectSeq(all, LAMBDA course : course.id \in courseIds)

\* the state after the constructor: the catalog of three courses with the
\* two sample saved courses of user 1, or the fallback catalog with none
InitSaved ==
    /\ \/ /\ courses = LoadCatalog(<<1, 2, 3>>)
          /\ savedCourses = SaveCourse(SaveCourse(<<>>, 1, 1, 1), 2, 1, 3)
          /\ currentSavedCourseId = 3
       \/ /\ courses = LoadCatalog(<<1>>)
          /\ savedCourses = <<>>
          /\ currentSavedCourseId = 1
    /\ pc = "idle"
    /\ chatMessages = <<>> /\ currentChatMessageId = 1 /\ requests = <<>>
    /\ StorageIdle /\ DedupIdle /\ ChatIdle /\ ClientIdle

\* POST /api/courses/save with body { courseId }
PostSave(courseId) ==
    /\ currentSavedCourseId <= MaxSavedId
    /\ IF ~Truthy(courseId) \/ ~IsNum(courseId)
       THEN pc' = "400" /\ UNCHANGED <<savedCourses, currentSavedCourseId>>
       ELSE IF GetCourse(courses, courseId) = 0
       THEN pc' = "404" /\ UNCHANGED <<savedCourses, currentSavedCourseId>>
       ELSE /\ savedCourses' = SaveCourse(savedCourses, currentSavedCourseId,
                                          DefaultUser, courseId.num \div 10)
            /\ currentSavedCourseId' = currentSavedCourseId + 1
            /\ pc' = "saved"
    /\ UNCHANGED <<courses, chatMessages, currentChatMessageId, requests,
                   storageVars, dedupVars, chatVars, clientVars>>

\* DELETE /api/courses/saved?courseId=...
DeleteSaved(courseIdParam) ==
    /\ LET courseId == IF Truthy(courseIdParam) THEN ParseInt(courseIdParam.str) ELSE NaN
       IN IF courseId = NaN \/ courseId.val = 0
          THEN pc' = "400" /\ UNCHANGED savedCourses
          ELSE /\ savedCourses' = RemoveSavedCourse(savedCourses, DefaultUser, courseId.val)
               /\ pc' = "removed"
    /\ UNCHANGED <<courses, currentSavedCourseId, chatMessages, currentChatMessageId,
                   requests, storageVars, dedupVars, chatVars, clientVars>>

NextSaved ==
    \/ \E courseId \in SaveBodies : PostSave(courseId)
    \/ \E courseIdParam \in DeleteParams : DeleteSaved(courseIdParam)

SpecSaved == InitSaved /\ [][NextSaved]_vars

\* the ids of the courses getSavedCourses lists for the default user
ListedIds(saved) ==
    {GetSavedCourses(saved, courses, DefaultUser)[i].id :
        i \in DOMAIN GetSavedCourses(saved, courses, DefaultUser)}

\* C28: once removeSavedCourse(u, c) has returned, getSavedCourses(u) does not
\* contain course c, also when the pair was saved more than once before
C28_RemovedNotListed ==
    [][\A c \in 1..3 :
          DeleteSaved(Str(NatToString(c))) => c \notin ListedIds(savedCourses')]_vars


(***************************************************************************)
(* POST /api/chat/message: requests in flight together, each a step up to  *)
(* the await of processMessage and a step from its return to the response. *)
(***************************************************************************)
\* the number of requests the model lets arrive
MaxRequests == 3

\* the content values of the request bodies
Contents == {Undefined, Null, Str(""), Whole(5), Str("hello"), Str("easy cs")}

\* the content of what processMessage returns
ResponseContents == {"No courses match your criteria.", "Here is what I found."}

\* a request that has stored nothing
NewRequest(content) ==
    [content |-> content, status |-> "400", userMessage |-> 0, assistantMessage |-> 0]

\* the message createChatMessage stores under id
ChatMessage(id, role, content, userId) ==
    [id |-> id, role |-> role, content |-> content, userId |-> userId]

\* this.chatMessages.set(id, message) on the map in insertion order
ChatMessagesSet(messages, stored) ==
    IF \E i \in DOMAIN messages : messages[i].id = stored.id
    THEN [i \in DOMAIN messages |->
             IF messages[i].id = stored.id THEN stored ELSE messages[i]]
    ELSE Append(messages, stored)

\* createChatMessage leaving the counter as it was
SameChatMessageId(id) == id

\* this.currentChatMessageId++: the counter after createChatMessage
NextChatMessageId(id) == id + 1

\* the handler up to the await of processMessage: the body is validated and
\* the user message stored
PostMessage(content) ==
    /\ Len(requests) < MaxRequests
    /\ IF ~Truthy(content) \/ ~IsStr(content)
       THEN /\ requests' = Append(requests, NewRequest(content))
            /\ UNCHANGED <<chatMessages, currentChatMessageId>>
       ELSE /\ chatMessages' = ChatMessagesSet(chatMessages,
                    ChatMessage(currentChatMessageId, "user", content.str, DefaultUser))
            /\ currentChatMessageId' = NextChatMessageId(currentChatMessageId)
            /\ requests' = Append(requests,
                    [NewRequest(content) EXCEPT !.status = "processing",
                                                !.userMessage = currentChatMessageId])
    /\ UNCHANGED <<courses, pc, savedCourses, currentSavedCourseId,
                   storageVars, dedupVars, chatVars, clientVars>>

\* processMessage has returned to request r: the assistant message is stored
\* and the response sent
Respond(r, content) ==
    /\ r \in DOMAIN requests
    /\ requests[r].status = "processing"
    /\ chatMessages' = ChatMessagesSet(chatMessages,
            ChatMessage(currentChatMessageId, "assistant", content, DefaultUser))
    /\ currentChatMessageId' = NextChatMessageId(currentChatMessageId)
    /\ requests' = [requests EXCEPT ![r].status = "200",
                                    ![r].assistantMessage = currentChatMessageId]
    /\ UNCHANGED <<courses, pc, savedCourses, currentSavedCourseId,
                   storageVars, dedupVars, chatVars, clientVars>>

InitMessages ==
    /\ courses \in {LoadCatalog(idx) : idx \in RowChoices(1)}
    /\ pc = "idle"
    /\ ServerIdle
    /\ StorageIdle /\ DedupIdle /\ ChatIdle /\ ClientIdle

NextMessages ==
    \/ \E content \in Contents : PostMessage(content)
    \/ \E r \in 1..MaxRequests : \E content \in ResponseContents : Respond(r, content)

SpecMessages == InitMessages /\ [][NextMessages]_vars

\* the places of the stored messages with this id
StoredUnder(id) == {i \in DOMAIN chatMessages : chatMessages[i].id = id}

\* the ids the requests were given by createChatMessage
GivenIds ==
    {requests[r].userMessage : r \in DOMAIN requests}
        \cup {requests[r].assistantMessage : r \in DOMAIN requests}

\* C30: a request rejected with 400 stores no message; an accepted request
\* stores one user message before processing and one assistant message after,
\* the user message under the smaller id; with requests interleaved all
\* stored ids are distinct
C30_OneUserOneAssistantMessage ==
    /\ \A i \in DOMAIN chatMessages : StoredUnder(chatMessages[i].id) = {i}
    /\ {chatMessages[i].id : i \in DOMAIN chatMessages} = GivenIds \ {0}
    /\ Len(chatMessages)
          = Cardinality({r \in DOMAIN requests : requests[r].status # "400"})
            + Cardinality({r \in DOMAIN requests : requests[r].status = "200"})
    /\ \A r \in DOMAIN requests :
          LET q == requests[r] IN
          /\ q.status = "400" => q.userMessage = 0 /\ q.assistantMessage = 0
          /\ q.status # "400" =>
                /\ \E i \in StoredUnder(q.userMessage) :
                      chatMessages[i].role = "user" /\ chatMessages[i].content = q.content.str
                /\ \A s \in DOMAIN requests :
                      s # r => q.userMessage \notin {requests[s].userMessage,
                                                     requests[s].assistantMessage}
          /\ q.status = "processing" => q.assistantMessage = 0
          /\ q.status = "200" =>
                /\ q.userMessage < q.assistantMessage
                /\ \E i \in StoredUnder(q.assistantMessage) :
                      chatMessages[i].role = "assistant"
                /\ \A s \in DOMAIN requests :
                      s # r => q.assistantMessage \notin {requests[s].userMessage,
                                                          requests[s].assistantMessage}

\* two accepted requests were answered in the reverse of their arrival, and
\* a third request was rejected
C30_Witness ==
    /\ Len(requests) = 3
    /\ requests[1].status = "200" /\ requests[2].status = "400" /\ requests[3].status = "200"
    /\ requests[1].userMessage = 1 /\ requests[3].userMessage = 2
    /\ requests[3].assistantMessage = 3 /\ requests[1].assistantMessage = 4
    /\ Len(chatMessages) = 4


(***************************************************************************)
(* The client filter store (useFilterStore) driven by the filter sidebar,  *)
(* and the chat interface sending the store's filters with a message.      *)
(***************************************************************************)
\* the sidebar's check boxes the model draws
CheckboxNames == {"morning", "noFriday"}

\* the sidebar's sliders and the positions the model draws
SliderNames == {"difficultyRating"}
SliderValues == {<<Num(35)>>}

\* the class size radio buttons the model draws
ClassSizeValues == {"small"}

\* setFilter(key, value): the store's filters after the call
SetFilter(state, key, value) == SetKey(state, key, value)

\* removeFilter(key): the store's filters after the call
RemoveFilter(state, key) == SelectSeq(state, LAMBDA p : p.k # key)

\* FiltersSidebar.handleCheckboxChange(name, checked): the store's filters
\* after the call
HandleCheckboxChange(state, name, checked) ==
    IF IsBool(checked) THEN SetFilter(state, name, checked) ELSE state

\* a click on a check box, which is drawn checked when the store holds true
\* for its name and reports the opposite of how it is drawn
ClickCheckbox(name) ==
    /\ storeFilters' = HandleCheckboxChange(storeFilters, name,
                            Bool(~(Get(storeFilters, name) = Bool(TRUE))))
    /\ UNCHANGED <<courses, pc, sentFilters, storageVars, dedupVars, chatVars, serverVars>>

\* FiltersSidebar.handleSliderChange(name, value)
HandleSliderChange(name, value) ==
    /\ storeFilters' = SetFilter(storeFilters, name, value[1])
    /\ UNCHANGED <<courses, pc, sentFilters, storageVars, dedupVars, chatVars, serverVars>>

\* FiltersSidebar.handleClassSizeChange(value)
HandleClassSizeChange(value) ==
    /\ storeFilters' = SetFilter(storeFilters, "classSize", Str(value))
    /\ UNCHANGED <<courses, pc, sentFilters, storageVars, dedupVars, chatVars, serverVars>>

\* the remove button of the tag of an active filter
RemoveTag(key) ==
    /\ key \in Keys(storeFilters)
    /\ storeFilters' = RemoveFilter(storeFilters, key)
    /\ UNCHANGED <<courses, pc, sentFilters, storageVars, dedupVars, chatVars, serverVars>>

\* the reset button: resetFilters()
ResetFilters ==
    /\ storeFilters' = EmptyObject
    /\ UNCHANGED <<courses, pc, sentFilters, storageVars, dedupVars, chatVars, serverVars>>

\* ChatInterface.sendMessage: the request body carries the store's filters,
\* which the route hands to processMessage
SendMessage ==
    /\ sentFilters' = <<storeFilters>>
    /\ UNCHANGED <<courses, pc, storeFilters, storageVars, dedupVars, chatVars, serverVars>>

InitClient ==
    /\ courses = <<>>
    /\ pc = "idle"
    /\ storeFilters = EmptyObject /\ sentFilters = <<>>
    /\ StorageIdle /\ DedupIdle /\ ChatIdle /\ ServerIdle

NextClient ==
    \/ \E name \in CheckboxNames : ClickCheckbox(name)
    \/ \E name \in SliderNames : \E value \in SliderValues : HandleSliderChange(name, value)
    \/ \E value \in ClassSizeValues : HandleClassSizeChange(value)
    \/ \E key \in CheckboxNames \cup SliderNames \cup {"classSize"} : RemoveTag(key)
    \/ ResetFilters
    \/ SendMessage

SpecClient == InitClient /\ [][NextClient]_vars

\* no key of the filter set is held with the value false or null
OnlySetKeys(F) == \A i \in DOMAIN F : F[i].v \notin {Bool(FALSE), Null}

\* C25: in every state of the client filter store, and in every filter set
\* sent with a message, a filter that is not set is an absent key and never
\* a key with the value false or null
C25_UnsetKeysAbsent ==
    /\ OnlySetKeys(storeFilters)
    /\ \A i \in DOMAIN sentFilters : OnlySetKeys(sentFilters[i])

=============================================================================
